---- MODULE Spec2Model ----
(***************************************************************************)
(* Model of the suggestion-generation layer of warpbean-backend:           *)
(*   src/src/services/deepseekService.js  DeepSeekService                  *)
(*   src/src/routes/suggestion.js         POST /api/suggestion             *)
(*                                                                         *)
(* JavaScript values are records [k |-> kind, s |-> literal].  Strings     *)
(* that the code concatenates or trims are sequences of characters; the    *)
(* fixed fragments of a template literal are single characters of that     *)
(* alphabet, so that concatenation is \o and loses the boundaries between  *)
(* the parts exactly as string concatenation does.                         *)
(***************************************************************************)
EXTENDS Integers, Sequences, FiniteSets, TLC

\* ---------------------------------------------------------------- bounds
\* longest array in an upstream completion (top level or `suggestions`)
MaxList == 2
\* longest historyContext passed to generateAnxietySuggestions
MaxHist == 2
\* most calls in progress at once on the service instance
MaxCalls == 2
\* most chat messages one behaviour sends
MaxChat == 2
\* most requests on stored records one behaviour makes
MaxRequests == 2

\* ------------------------------------------------------- JavaScript values
JS(k, s) == [k |-> k, s |-> s]
Undefined == JS("undefined", "")
Null == JS("null", "")
Str(s) == JS("str", s)
Num(s) == JS("num", s)
Bool(s) == JS("bool", s)

\* ToBoolean, as used by `||`, `&&` and `if`
Truthy(v) ==
  ~ \/ v.k \in {"undefined", "null"}
    \/ v.k = "bool" /\ v.s = "false"
    \/ v.k = "num" /\ v.s = "0"
    \/ v.k = "str" /\ v.s = ""

\* a || b
Or(a, b) == IF Truthy(a) THEN a ELSE b

\* reading a property of null or undefined throws a TypeError;
\* every other value can be asked for a property
CanRead(v) == v.k \notin {"null", "undefined"}

\* An element of a JSON array: an object with the three properties the code
\* reads (Undefined when the object has no such property), or a primitive,
\* which has none of them.
Obj(m, x, t) == [k |-> "obj", s |-> "", message |-> m, text |-> x, type |-> t]
Prim(v) == [k |-> v.k, s |-> v.s, message |-> Undefined, text |-> Undefined,
            type |-> Undefined]

ItemMessages == {Undefined, Str(""), Str("a")}
ItemTexts == {Undefined, Str("b")}
ItemTypes == {Undefined, Str(""), Str("t")}
Items ==
  {Obj(m, x, t) : m \in ItemMessages, x \in ItemTexts, t \in ItemTypes}
    \cup {Prim(Null), Prim(Str("s")), Prim(Num("5"))}

Lists == UNION {[1..n -> Items] : n \in 0..MaxList}

\* The value of the `suggestions` property of a top-level object
Arr(items) == [k |-> "arr", s |-> "", items |-> items]
NotArr(v) == [k |-> v.k, s |-> v.s, items |-> <<>>]

\* A parsed completion: an array, an object, or a primitive
TopArr(items) ==
  [k |-> "arr", s |-> "", items |-> items, suggestions |-> NotArr(Undefined),
   message |-> Undefined, type |-> Undefined]
TopObj(sg, m, t) ==
  [k |-> "obj", s |-> "", items |-> <<>>, suggestions |-> sg,
   message |-> m, type |-> t]
TopPrim(v) ==
  [k |-> v.k, s |-> v.s, items |-> <<>>, suggestions |-> NotArr(Undefined),
   message |-> Undefined, type |-> Undefined]

TopMessages == {Undefined, Str(""), Str("c")}
TopTypes == {Undefined, Str(""), Str("x")}
TopPrims == {TopPrim(Null), TopPrim(Num("7")), TopPrim(Str("hi")),
             TopPrim(Bool("true")), TopPrim(Bool("false"))}
Parsed ==
  {TopArr(l) : l \in Lists}
    \cup {TopObj(sg, m, t) :
            sg \in {Arr(l) : l \in Lists}
                     \cup {NotArr(Undefined), NotArr(Str("x"))},
            m \in TopMessages, t \in TopTypes}
    \cup TopPrims

\* ------------------------------------------------- strings of the prompts
\* Fixed fragments of the template literals of generateAnxietySuggestions,
\* each one character of the prompt alphabet.
\* line 35, the prefix before ${title}
FragTopic == "<procrastinated thing:>"
\* line 37, newline + label before the trimmed titleContext
FragContext == "<NL supplementary description:>"
\* line 41, blank line + heading + newline before the numbered listing
FragHistory == "<NL NL history records: NL>"
\* line 42, between ${index + 1} and ${item.suggestion_text}
FragDot == ". "
\* line 42, between ${item.suggestion_text} and ${item.suggestion_type}
FragTypeOpen == " (type: "
\* line 42, after ${item.suggestion_type}
FragTypeClose == ")"
\* line 43, the separator of join('\n')
FragNL == "<NL>"
\* line 44, blank line + the instruction to give new, clearly different advice
FragDiffer == "<NL NL give new and clearly different suggestions>"

Fragments == {FragTopic, FragContext, FragHistory, FragDot, FragTypeOpen,
              FragTypeClose, FragNL, FragDiffer}

\* characters String.prototype.trim removes: space and tab stand for the class
WhiteSpace == {" ", "<TAB>"}

\* String.prototype.trim
RECURSIVE TrimStart(_)
TrimStart(cs) ==
  IF cs # <<>> /\ Head(cs) \in WhiteSpace THEN TrimStart(Tail(cs)) ELSE cs

RECURSIVE TrimEnd(_)
TrimEnd(cs) ==
  IF cs # <<>> /\ cs[Len(cs)] \in WhiteSpace
  THEN TrimEnd(SubSeq(cs, 1, Len(cs) - 1)) ELSE cs

\* Trim that removes leading white space only
TrimLeadingOnly(cs) == TrimStart(cs)

Trim(cs) == TrimEnd(TrimStart(cs))

\* Number-to-string conversion of ${index + 1}: the decimal digits
Digit(d) == <<"0", "1", "2", "3", "4", "5", "6", "7", "8", "9">>[d + 1]

RECURSIVE Decimal(_)
Decimal(n) ==
  IF n < 10 THEN <<Digit(n)>> ELSE Decimal(n \div 10) \o <<Digit(n % 10)>>

\* A string argument whose characters matter: [k |-> "str", chars |-> seq],
\* or undefined / null (chars empty)
Text(cs) == [k |-> "str", chars |-> cs]
NoText(k) == [k |-> k, chars |-> <<>>]
TextTruthy(v) == v.k = "str" /\ v.chars # <<>>

\* ------------------------------------------------------- system prompts
\* The three templates are constant text; each is modelled by the method
\* that returns it and the number of characters of its template literal.
getGreenPersonalityPromptV2 ==
  [method |-> "getGreenPersonalityPromptV2", length |-> 1655]
getYellowPersonalityPromptV2 ==
  [method |-> "getYellowPersonalityPromptV2", length |-> 1104]
getRedPersonalityPromptV2 ==
  [method |-> "getRedPersonalityPromptV2", length |-> 1576]

\* SystemPrompt with the `break` of case 'yellow' missing
SystemPromptFallThrough(personality) ==
  IF personality = Str("yellow") THEN getRedPersonalityPromptV2
  ELSE IF personality = Str("red") THEN getRedPersonalityPromptV2
  ELSE getGreenPersonalityPromptV2

\* switch (personality) { case 'yellow' .. case 'red' .. case 'green': default: }
SystemPrompt(personality) ==
  IF personality = Str("yellow") THEN getYellowPersonalityPromptV2
  ELSE IF personality = Str("red") THEN getRedPersonalityPromptV2
  ELSE getGreenPersonalityPromptV2

\* ---------------------------------------------------------- user prompt
\* HistoryLine numbering with ${index}
HistoryLineZeroBased(item, index) ==
  Decimal(index) \o <<FragDot>> \o item.suggestion_text
    \o <<FragTypeOpen>> \o item.suggestion_type \o <<FragTypeClose>>

\* `${index + 1}. ${item.suggestion_text} (类型: ${item.suggestion_type})`
HistoryLine(item, index) ==
  Decimal(index + 1) \o <<FragDot>> \o item.suggestion_text
    \o <<FragTypeOpen>> \o item.suggestion_type \o <<FragTypeClose>>

\* historyContext.map(...).join('\n'), from the element with 0-based index i
RECURSIVE HistoryListing(_, _)
HistoryListing(historyContext, i) ==
  IF i >= Len(historyContext) THEN <<>>
  ELSE HistoryLine(historyContext[i + 1], i)
         \o (IF i + 1 < Len(historyContext) THEN <<FragNL>> ELSE <<>>)
         \o HistoryListing(historyContext, i + 1)

UserPrompt(title, historyContext, titleContext) ==
  LET base == <<FragTopic>> \o title
      withContext ==
        IF TextTruthy(titleContext) /\ Len(Trim(titleContext.chars)) > 0
        THEN base \o <<FragContext>> \o Trim(titleContext.chars)
        ELSE base
  IN IF Len(historyContext) > 0
     THEN withContext \o <<FragHistory>> \o HistoryListing(historyContext, 0)
            \o <<FragDiffer>>
     ELSE withContext

\* CompletionRequest with the two messages in the other order
CompletionRequestUserFirst(title, historyContext, personality, titleContext) ==
  [url |-> "/chat/completions",
   model |-> "deepseek-chat",
   roles |-> <<"user", "system">>,
   system |-> SystemPrompt(personality),
   user |-> UserPrompt(title, historyContext, titleContext),
   temperature |-> 2,
   max_tokens |-> 1500,
   response_format |-> "json_object"]

\* The body of the POST to /chat/completions (lines 47-62); `messages` is
\* given by the roles in order and the content of each of the two messages
CompletionRequest(title, historyContext, personality, titleContext) ==
  [url |-> "/chat/completions",
   model |-> "deepseek-chat",
   roles |-> <<"system", "user">>,
   system |-> SystemPrompt(personality),
   user |-> UserPrompt(title, historyContext, titleContext),
   temperature |-> 2,
   max_tokens |-> 1500,
   response_format |-> "json_object"]

NoRequest ==
  [url |-> "", model |-> "", roles |-> <<>>,
   system |-> [method |-> "", length |-> 0], user |-> <<>>,
   temperature |-> 0, max_tokens |-> 0, response_format |-> ""]

\* ------------------------------------------------------ upstream replies
\* What the awaited this.client.post settles to: a 2xx response whose
\* choices[0].message.content is JSON text (json, with the value it denotes)
\* or other text; a response with an error status (axios rejects, the error
\* carries error.response.status); or no response at all (timeout after
\* 30000 ms, network error: axios rejects, error.response is undefined).
NoUsage == [prompt_tokens |-> 0, completion_tokens |-> 0, total_tokens |-> 0]
SomeUsage == [prompt_tokens |-> 120, completion_tokens |-> 80, total_tokens |-> 200]

Completion(value) ==
  [kind |-> "ok", status |-> 200, json |-> TRUE, value |-> value,
   usage |-> SomeUsage]
NotJson ==
  [kind |-> "ok", status |-> 200, json |-> FALSE, value |-> TopPrim(Undefined),
   usage |-> SomeUsage]
HttpError(status) ==
  [kind |-> "status", status |-> status, json |-> FALSE,
   value |-> TopPrim(Undefined), usage |-> NoUsage]
NoResponse ==
  [kind |-> "noresponse", status |-> 0, json |-> FALSE,
   value |-> TopPrim(Undefined), usage |-> NoUsage]
NoReply ==
  [kind |-> "none", status |-> 0, json |-> FALSE,
   value |-> TopPrim(Undefined), usage |-> NoUsage]

ErrorStatuses == {400, 401, 402, 429, 500, 503}
Failures == {HttpError(st) : st \in ErrorStatuses} \cup {NoResponse}

\* ------------------------------------------------------------ exceptions
\* Error messages are sequences of words, so that String.includes(word) is
\* a search of the sequence.
MsgAuth == <<"DeepSeek", "API", "authentication", "failed">>
MsgRate == <<"DeepSeek", "API", "rate", "limit", "exceeded">>
MsgGenerate == <<"Failed", "to", "generate", "suggestions">>
MsgParse == <<"Failed", "to", "parse", "DeepSeek", "response">>
MsgTypeError == <<"Cannot", "read", "properties", "of", "null">>
MsgAxios == <<"Request", "failed">>

Includes(message, word) == \E i \in 1..Len(message) : message[i] = word

\* an exception object: its message and its `response` property, if any
Exception(message, hasResponse, status) ==
  [message |-> message, response |-> hasResponse, status |-> status]

\* ------------------------------------------------------- normalization
Threw(exc) == [threw |-> TRUE, exc |-> exc, value |-> <<>>]
Value(v) == [threw |-> FALSE, exc |-> Exception(<<>>, FALSE, 0), value |-> v]

\* item => ({ text: item.message || item.text || '', type: item.type || 'immediate' })
MapItem(item) ==
  [text |-> Or(Or(item.message, item.text), Str("")),
   type |-> Or(item.type, Str("immediate"))]

\* array.map(item => ...): the callback throws on an element whose
\* properties cannot be read
MapItems(items) ==
  IF \E i \in 1..Len(items) : ~CanRead(items[i])
  THEN Threw(Exception(MsgTypeError, FALSE, 0))
  ELSE Value([i \in 1..Len(items) |-> MapItem(items[i])])

\* Normalize with `type: parsedContent.type` in the message branch
NormalizeTypeUndefaulted(parsedContent) ==
  IF parsedContent.k = "arr" THEN MapItems(parsedContent.items)
  ELSE IF ~CanRead(parsedContent)
       THEN Threw(Exception(MsgTypeError, FALSE, 0))
  ELSE IF Truthy(parsedContent.suggestions) /\ parsedContent.suggestions.k = "arr"
       THEN MapItems(parsedContent.suggestions.items)
  ELSE IF Truthy(parsedContent.message)
       THEN Value(<< [text |-> parsedContent.message,
                      type |-> parsedContent.type] >>)
  ELSE Value(<<>>)

\* Normalize with the message branch tested before the suggestions branch
NormalizeMessageFirst(parsedContent) ==
  IF parsedContent.k = "arr" THEN MapItems(parsedContent.items)
  ELSE IF ~CanRead(parsedContent)
       THEN Threw(Exception(MsgTypeError, FALSE, 0))
  ELSE IF Truthy(parsedContent.message)
       THEN Value(<< [text |-> parsedContent.message,
                      type |-> Or(parsedContent.type, Str("immediate"))] >>)
  ELSE IF Truthy(parsedContent.suggestions) /\ parsedContent.suggestions.k = "arr"
       THEN MapItems(parsedContent.suggestions.items)
  ELSE Value(<<>>)

\* lines 76-96: the if / else-if chain over parsedContent
Normalize(parsedContent) ==
  IF parsedContent.k = "arr" THEN MapItems(parsedContent.items)
  ELSE IF ~CanRead(parsedContent)
       THEN Threw(Exception(MsgTypeError, FALSE, 0))
  ELSE IF Truthy(parsedContent.suggestions) /\ parsedContent.suggestions.k = "arr"
       THEN MapItems(parsedContent.suggestions.items)
  ELSE IF Truthy(parsedContent.message)
       THEN Value(<< [text |-> parsedContent.message,
                      type |-> Or(parsedContent.type, Str("immediate"))] >>)
  ELSE Value(<<>>)

\* JSON.parse(content) inside the inner try (lines 67-74)
ParseContent(reply) ==
  IF reply.json THEN Value(reply.value)
  ELSE Threw(Exception(MsgParse, FALSE, 0))

\* lines 47-105 after the await: what the try block does with the reply
TryBlock(reply) ==
  IF reply.kind = "status" THEN Threw(Exception(MsgAxios, TRUE, reply.status))
  ELSE IF reply.kind = "noresponse" THEN Threw(Exception(MsgAxios, FALSE, 0))
  ELSE LET parsed == ParseContent(reply)
       IN IF parsed.threw THEN parsed ELSE Normalize(parsed.value)

\* CatchBlock without the test for status 429
CatchBlockWithoutRateLimit(error) ==
  IF error.response /\ error.status = 401 THEN MsgAuth
  ELSE MsgGenerate

\* lines 107-119: the catch block, giving the message of the Error it throws
CatchBlock(error) ==
  IF error.response /\ error.status = 401 THEN MsgAuth
  ELSE IF error.response /\ error.status = 429 THEN MsgRate
  ELSE MsgGenerate

\* how an invocation ends
NoOutcome ==
  [kind |-> "none", success |-> FALSE, suggestions |-> <<>>, usage |-> NoUsage,
   personality |-> Undefined, message |-> <<>>]
Returned(suggestions, usage, personality) ==
  [kind |-> "return", success |-> TRUE, suggestions |-> suggestions,
   usage |-> usage, personality |-> personality, message |-> <<>>]
Thrown(message) ==
  [kind |-> "throw", success |-> FALSE, suggestions |-> <<>>, usage |-> NoUsage,
   personality |-> Undefined, message |-> message]

Settle(reply, personality) ==
  LET body == TryBlock(reply)
  IN IF body.threw THEN Thrown(CatchBlock(body.exc))
     ELSE Returned(body.value, reply.usage, personality)

\* ------------------------------------------------------------------ state
VARIABLES
  args,            \* the arguments as the caller passed them
  pc,              \* position of the invocation: "idle", "awaiting", "done",
                   \* "responded" once the HTTP handler has answered, and
                   \* "rejected" when the validation answered instead of it
  caller,          \* who invoked generateAnxietySuggestions: "none", "direct",
                   \* or the route: "route", "generate", "public"
  title,           \* the four parameters of the running invocation,
  historyContext,  \*   after their default values were applied
  personality,
  titleContext,
  request,         \* the body last posted to /chat/completions
  requests,        \* number of posts made by the running invocation
  reply,           \* what the awaited post settled to
  outcome,         \* how the invocation ended
  received,        \* the body of the HTTP request as the client sent it
  req,             \* req.body as the handler reads it, after the validation chain
  http,            \* the answer of the HTTP handler
  topics,          \* table anxiety_topics
  rows,            \* table anxiety_suggestions, in insertion order
  calls,           \* the calls in progress on the one service instance
  client,          \* this.client: the configuration axios.create was given
  health,          \* the handler of GET /api/suggestion-test/health
  chat,            \* the handler of POST /sessions/:sessionId/messages
  messages,        \* table chat_messages, in insertion order
  stream,          \* the handler of POST /sessions/:sessionId/stream
  sessions,        \* table chat_sessions
  operation,       \* the last request on one session, topic or suggestion
  feedback,        \* columns is_helpful and helpful_rating, by suggestion id
  users,           \* table users
  auth             \* the last run of authenticateToken and what followed it

\* the variables of one invocation and of the HTTP handler that made it
handling == <<args, pc, caller, title, historyContext, personality,
              titleContext, request, requests, reply, outcome, received,
              req, http>>
sequential == <<handling, topics, rows>>
\* the variables of the calls that overlap on the instance
concurrent == <<calls, client, health>>
\* the variables of the chat route
chatting == <<chat, messages, stream, sessions>>
\* the variables of the requests on one stored record and of the middleware
account == <<operation, feedback, users, auth>>
vars == <<sequential, concurrent, chatting, account>>

CallIds == 1..MaxCalls

\* constructor, lines 4-15: apiUrl, the Authorization header and the timeout
constructor ==
  [baseURL |-> "https://api.deepseek.com",
   Authorization |-> <<"Bearer", "DEEPSEEK_API_KEY">>,
   ContentType |-> "application/json",
   timeout |-> 30000]

NoHttp ==
  [status |-> 0, error |-> "", message |-> <<>>, details |-> <<>>, stored |-> 0]
\* no request body
NoBody ==
  [title |-> NoText("undefined"), description |-> NoText("undefined"),
   title_context |-> NoText("undefined"), personality |-> Undefined,
   history |-> [k |-> "undefined", items |-> <<>>]]
NoArgs ==
  [title |-> <<>>, historyContext |-> <<>>, personality |-> Undefined,
   titleContext |-> NoText("undefined")]

\* a call that has not been made
IdleCall ==
  [op |-> "none", pc |-> "idle", args |-> NoArgs, personality |-> Undefined,
   request |-> NoRequest, posts |-> 0, reply |-> NoReply, result |-> NoOutcome]

\* no health request in progress
NoProbe ==
  [pc |-> "idle", call |-> 0, answer |-> [status |-> 0, body |-> [status |-> ""]]]

\* no chat request in progress
NoAnswer ==
  [status |-> 0, error |-> "", user_message |-> Null, ai_message |-> Null]
NoChat ==
  [pc |-> "idle", sessionId |-> 0, userId |-> 0, content |-> Undefined,
   userMessage |-> Null, context |-> <<>>, reply |-> [kind |-> "none"],
   answer |-> NoAnswer]
\* no stream request in progress
NoStream ==
  [pc |-> "idle", sessionId |-> 0, userId |-> 0, content |-> Undefined,
   status |-> 0, events |-> <<>>]
\* no request on a stored record yet
NoOp ==
  [n |-> 0, name |-> "none", id |-> 0, userId |-> 0, body |-> <<>>,
   status |-> 0, returned |-> Null]
\* authenticateToken has not run
NoToken == [kind |-> "none", id |-> 0]
NoHeader == [k |-> "undefined", scheme |-> "", token |-> NoToken]
NoAuth ==
  [header |-> NoHeader, status |-> 0, message |-> "", user |-> Null,
   next |-> FALSE, handled |-> FALSE]

\* table chat_sessions as the requests find it; updated_at counts as 0 at
\* creation and 1 once NOW() was written over it
ChatSessions ==
  <<[id |-> 1, user_id |-> 1, title |-> "talk", status |-> "active",
     updated_at |-> 0],
    [id |-> 2, user_id |-> 2, title |-> "talk", status |-> "active",
     updated_at |-> 0],
    [id |-> 3, user_id |-> 1, title |-> "talk", status |-> "ended",
     updated_at |-> 0]>>
\* table users as the requests find it
Users ==
  <<[id |-> 1, full_name |-> "ann", avatar_url |-> "none", is_active |-> TRUE,
     updated_at |-> 0],
    [id |-> 2, full_name |-> "bob", avatar_url |-> "none", is_active |-> TRUE,
     updated_at |-> 0],
    [id |-> 3, full_name |-> "cy", avatar_url |-> "none", is_active |-> FALSE,
     updated_at |-> 0]>>

Init ==
  /\ args = NoArgs
  /\ pc = "idle"
  /\ caller = "none"
  /\ title = <<>>
  /\ historyContext = <<>>
  /\ personality = Undefined
  /\ titleContext = NoText("undefined")
  /\ request = NoRequest
  /\ requests = 0
  /\ reply = NoReply
  /\ outcome = NoOutcome
  /\ received = NoBody
  /\ req = NoBody
  /\ http = NoHttp
  /\ topics = <<>>
  /\ rows = <<>>
  /\ calls = [c \in CallIds |-> IdleCall]
  /\ client = constructor
  /\ health = NoProbe
  /\ chat = NoChat
  /\ messages = <<>>
  /\ stream = NoStream
  /\ sessions = ChatSessions
  /\ operation = NoOp
  /\ feedback = {}
  /\ users = Users
  /\ auth = NoAuth

\* --------------------------------------------------- the service's inputs
Titles == {<<"T">>}
HistoryItems ==
  {[suggestion_text |-> <<"h", "1">>, suggestion_type |-> <<"immediate">>],
   [suggestion_text |-> <<"h", "2">>, suggestion_type |-> <<"long_term">>]}
Histories == UNION {[1..n -> HistoryItems] : n \in 0..MaxHist}
Personalities ==
  {Undefined, Null, Str("green"), Str("yellow"), Str("red"), Str("blue"),
   Str("Red")}
Contexts ==
  {NoText("undefined"), NoText("null"), Text(<<>>), Text(<<" ">>),
   Text(<<"<TAB>", " ">>), Text(<<"c">>), Text(<<" ", "c", " ", "d", " ">>)}

\* generateAnxietySuggestions(title, historyContext = [], personality = 'green',
\* titleContext = ''), lines 18-62: from the call to the awaited post.
\* A parameter default replaces undefined only.
Begin(who, t, h, p, c) ==
  /\ pc = "idle"
  /\ pc' = "awaiting"
  /\ args' = [title |-> t, historyContext |-> h, personality |-> p,
              titleContext |-> c]
  /\ caller' = who
  /\ title' = t
  /\ historyContext' = h
  /\ personality' = (IF p = Undefined THEN Str("green") ELSE p)
  /\ titleContext' = (IF c.k = "undefined" THEN Text(<<>>) ELSE c)
  /\ request' = CompletionRequest(title', historyContext', personality',
                                  titleContext')
  /\ requests' = 1
  /\ reply' = NoReply
  /\ outcome' = NoOutcome

\* a caller other than the HTTP handler
Invoke(t, h, p, c) ==
  /\ Begin("direct", t, h, p, c)
  /\ UNCHANGED <<received, req, http, topics, rows>>
  /\ UNCHANGED <<concurrent, chatting, account>>

\* Receive that posts once more after a first failure
ReceiveWithRetry(r) ==
  /\ pc = "awaiting"
  /\ IF r.kind # "ok" /\ requests < 2
     THEN /\ requests' = requests + 1
          /\ UNCHANGED <<pc, reply, outcome>>
     ELSE /\ pc' = "done"
          /\ reply' = r
          /\ outcome' = Settle(r, personality)
          /\ UNCHANGED requests
  /\ UNCHANGED <<args, caller, title, historyContext, personality,
                 titleContext, request, received, req, http, topics, rows>>
  /\ UNCHANGED <<concurrent, chatting, account>>

\* lines 64-119: the post settles and the invocation returns or throws
Receive(r) ==
  /\ pc = "awaiting"
  /\ pc' = "done"
  /\ reply' = r
  /\ outcome' = Settle(r, personality)
  /\ UNCHANGED <<args, caller, title, historyContext, personality,
                 titleContext, request, requests, received, req, http,
                 topics, rows>>
  /\ UNCHANGED <<concurrent, chatting, account>>

\* replies of the service specification: every failure, text that is not
\* JSON, and one completion of each shape
SomeParsed ==
  {TopArr(<<Obj(Str("a"), Undefined, Str("t"))>>),
   TopArr(<<Obj(Undefined, Str("b"), Undefined), Obj(Str("a"), Undefined, Undefined)>>),
   TopArr(<<>>),
   TopArr(<<Prim(Null)>>),
   TopObj(Arr(<<Obj(Undefined, Str("b"), Undefined)>>), Undefined, Undefined),
   TopObj(NotArr(Undefined), Str("c"), Str("x")),
   TopObj(NotArr(Undefined), Str("c"), Undefined),
   TopObj(NotArr(Undefined), Undefined, Undefined),
   TopPrim(Null)}
Replies == Failures \cup {NotJson} \cup {Completion(v) : v \in SomeParsed}

Next ==
  \/ \E t \in Titles, h \in Histories, p \in Personalities, c \in Contexts :
       Invoke(t, h, p, c)
  \/ \E r \in Replies : Receive(r)

Spec == Init /\ [][Next]_vars

\* ------------------------------------------------- normalization in full
\* the same invocation, with every completion of the bounded universe
NextNormalize ==
  \/ Invoke(<<"T">>, <<>>, Str("red"), Text(<<>>))
  \/ /\ pc = "awaiting"
     /\ \E v \in Parsed : Receive(Completion(v))

SpecNormalize == Init /\ [][NextNormalize]_vars

\* ------------------------------------------- calls that overlap in time
\* The instance is shared by every handler; a call runs from its start to
\* its awaited post in one step and from the settled post to its end in
\* another, and steps of different calls interleave.

\* lines 687-696: the body checkHealth posts
HealthProbe ==
  [url |-> "/chat/completions",
   model |-> "deepseek-chat",
   messages |-> <<[role |-> "user", content |-> <<"Hello">>]>>,
   max_tokens |-> 10]

\* a 2xx response to the probe, with response.data.model
ProbeOk(model) == [kind |-> "ok", status |-> 200, model |-> model]
ModelNames == {Str("deepseek-chat"), Str("deepseek-v3")}
ProbeReplies == {ProbeOk(m) : m \in ModelNames} \cup Failures

NoHealth ==
  [kind |-> "none", success |-> FALSE, status |-> "", model |-> Undefined,
   error |-> <<>>]

\* checkHealth whose catch block throws the error on
checkHealthRethrowing(r) ==
  IF r.kind = "ok"
  THEN [kind |-> "return", success |-> TRUE, status |-> "healthy",
        model |-> r.model, error |-> <<>>]
  ELSE [kind |-> "throw", success |-> FALSE, status |-> "unhealthy",
        model |-> Undefined, error |-> MsgAxios]

\* lines 698-709: what checkHealth returns once the probe has settled;
\* error.message of an axios rejection is never empty
checkHealth(r) ==
  IF r.kind = "ok"
  THEN [kind |-> "return", success |-> TRUE, status |-> "healthy",
        model |-> r.model, error |-> <<>>]
  ELSE [kind |-> "return", success |-> FALSE, status |-> "unhealthy",
        model |-> Undefined, error |-> MsgAxios]

\* arguments and replies of the overlapping generateAnxietySuggestions calls
CallPersonalities == {Undefined, Str("red")}
CallContexts == {Text(<<>>), Text(<<"c">>)}
CallReplies ==
  {HttpError(401), HttpError(429), NoResponse, NotJson,
   Completion(TopArr(<<Obj(Str("a"), Undefined, Str("t"))>>))}

\* generateAnxietySuggestions, lines 18-62, as call c
StartGenerate(c, t, p, ctx) ==
  /\ calls[c].pc = "idle"
  /\ LET personalityOf == IF p = Undefined THEN Str("green") ELSE p
     IN calls' = [calls EXCEPT ![c] =
          [op |-> "generate", pc |-> "awaiting",
           args |-> [title |-> t, historyContext |-> <<>>, personality |-> p,
                     titleContext |-> ctx],
           personality |-> personalityOf,
           request |-> CompletionRequest(t, <<>>, personalityOf, ctx),
           posts |-> 1, reply |-> NoReply, result |-> NoOutcome]]
  /\ UNCHANGED <<client, health>>
  /\ UNCHANGED <<sequential, chatting, account>>

\* checkHealth, lines 685-696, as call c: up to the awaited post
ProbeCall(c) ==
  /\ calls[c].pc = "idle"
  /\ calls' = [calls EXCEPT ![c] =
       [op |-> "health", pc |-> "awaiting", args |-> NoArgs,
        personality |-> Undefined, request |-> HealthProbe, posts |-> 1,
        reply |-> NoReply, result |-> NoHealth]]

\* checkHealth called by something other than the health route
StartHealth(c) ==
  /\ ProbeCall(c)
  /\ UNCHANGED <<client, health>>
  /\ UNCHANGED <<sequential, chatting, account>>

\* what call c ends with once its post settled to r
ResultOf(op, personalityOf, r) ==
  IF op = "generate" THEN Settle(r, personalityOf) ELSE checkHealth(r)

\* SettleCall where the instance keeps the last settled reply in a field
\* and every call reads that field
SettleCallThroughInstance(c, r) ==
  /\ calls[c].pc = "awaiting"
  /\ r \in (IF calls[c].op = "generate" THEN CallReplies ELSE ProbeReplies)
  /\ LET same == {d \in CallIds \ {c} :
                    calls[d].pc = "done" /\ calls[d].op = calls[c].op}
         used == IF same = {} THEN r ELSE calls[CHOOSE d \in same : TRUE].reply
     IN calls' = [calls EXCEPT ![c].pc = "done", ![c].reply = r,
                    ![c].result = ResultOf(calls[c].op, calls[c].personality, used)]
  /\ UNCHANGED <<client, health>>
  /\ UNCHANGED <<sequential, chatting, account>>

\* lines 64-119 and 698-709: the post of call c settles to r
SettleCall(c, r) ==
  /\ calls[c].pc = "awaiting"
  /\ r \in (IF calls[c].op = "generate" THEN CallReplies ELSE ProbeReplies)
  /\ calls' = [calls EXCEPT ![c].pc = "done", ![c].reply = r,
                 ![c].result = ResultOf(calls[c].op, calls[c].personality, r)]
  /\ UNCHANGED <<client, health>>
  /\ UNCHANGED <<sequential, chatting, account>>

NextConcurrent ==
  \/ \E c \in CallIds, t \in Titles, p \in CallPersonalities,
         ctx \in CallContexts : StartGenerate(c, t, p, ctx)
  \/ \E c \in CallIds : StartHealth(c)
  \/ \E c \in CallIds, r \in CallReplies \cup ProbeReplies : SettleCall(c, r)

SpecConcurrent == Init /\ [][NextConcurrent]_vars

\* ------------------------------------------------- POST /api/suggestion
\* most requests of one behaviour of the route specification
MaxTopics == 2

\* characters of a stored string, for its use in a template literal
ToChars(v) == IF v.s = "" THEN <<>> ELSE <<v.s>>

\* the values of the ENUM column anxiety_suggestions.suggestion_type
SuggestionTypes == {"immediate", "short_term", "long_term", "professional"}

\* AnxietySuggestion.findByUserId(userId, { limit: 10 }): the newest rows of
\* the user first (ORDER BY created_at DESC LIMIT ?)
RECURSIVE Reverse(_)
Reverse(sq) == IF sq = <<>> THEN <<>> ELSE Append(Reverse(Tail(sq)), Head(sq))

RECURSIVE SelectUser(_, _)
SelectUser(table, userId) ==
  IF table = <<>> THEN <<>>
  ELSE (IF Head(table).user_id = userId THEN <<Head(table)>> ELSE <<>>)
         \o SelectUser(Tail(table), userId)

findByUserId(userId, limit) ==
  LET newestFirst == Reverse(SelectUser(rows, userId))
  IN SubSeq(newestFirst, 1, IF Len(newestFirst) < limit THEN Len(newestFirst) ELSE limit)

\* lines 80-83: historicalSuggestions.map(s => ({ suggestion_text, suggestion_type }))
HistoryOf(found) ==
  [i \in 1..Len(found) |->
     [suggestion_text |-> ToChars(found[i].suggestion_text),
      suggestion_type |-> ToChars(found[i].suggestion_type)]]

\* a || b with the operands the other way round
TextOrSecondFirst(a, b) == IF TextTruthy(b) THEN b ELSE a

\* a || b on string arguments
TextOr(a, b) == IF TextTruthy(a) THEN a ELSE b

\* ---- the validation chains (express-validator runs a chain in the order
\* it is written: isLength sees the value as sent, trim changes it after)
TitleMax == 200
DescriptionMax == 1000
ContextMax == 500

\* the string a validator is given: '' for a field that is not there
Sent(field) == IF field.k = "str" THEN field.chars ELSE <<>>

\* body('title').isLength({ min: 1, max: 200 })
TitleValid(field) == Len(Sent(field)) >= 1 /\ Len(Sent(field)) <= TitleMax

\* body(..).optional().isLength({ max })
OptionalValid(field, max) == field.k = "undefined" \/ Len(Sent(field)) <= max

\* body('personality').optional().isIn(['green', 'yellow', 'red'])
PersonalityValid(p) ==
  p = Undefined \/ p \in {Str("green"), Str("yellow"), Str("red")}

\* item.name inside the custom validator: the property of an object item;
\* undefined on a string or a number; a TypeError on null, which the
\* validator turns into a validation error like its own throw
ItemThrows(item) == "k" \in DOMAIN item /\ item.k \in {"null", "undefined"}
ItemField(item, name) == IF name \in DOMAIN item THEN item[name] ELSE <<>>

\* HistoryValid without the isArray test
HistoryValidWithoutIsArray(h) ==
  h.k # "array"
    \/ \A i \in 1..Len(h.items) :
         /\ ~ItemThrows(h.items[i])
         /\ ItemField(h.items[i], "suggestion_text") # <<>>
         /\ ItemField(h.items[i], "suggestion_type") # <<>>

\* body('history').optional().isArray().custom(..): every item has a truthy
\* suggestion_text and suggestion_type
HistoryValid(h) ==
  h.k = "undefined"
    \/ /\ h.k = "array"
       /\ \A i \in 1..Len(h.items) :
            /\ ~ItemThrows(h.items[i])
            /\ ItemField(h.items[i], "suggestion_text") # <<>>
            /\ ItemField(h.items[i], "suggestion_type") # <<>>

\* validationResult(req).isEmpty() for the chain of the route
Valid(route, body) ==
  IF route = "route"
  THEN /\ TitleValid(body.title)
       /\ OptionalValid(body.description, DescriptionMax)
       /\ OptionalValid(body.title_context, ContextMax)
       /\ PersonalityValid(body.personality)
  ELSE /\ TitleValid(body.title)
       /\ PersonalityValid(body.personality)
       /\ HistoryValid(body.history)

\* .trim() at the end of a chain; the optional chains leave an absent field
TrimField(field) == IF field.k = "str" THEN Text(Trim(field.chars)) ELSE field

\* req.body once the chain of the route has run
Sanitized(route, body) ==
  IF route = "route"
  THEN [body EXCEPT !.title = TrimField(@), !.description = TrimField(@),
                    !.title_context = TrimField(@)]
  ELSE [body EXCEPT !.title = TrimField(@)]

\* handleValidationErrors: 400 and the handler is not run
Reject(route) ==
  /\ pc = "idle"
  /\ pc' = "rejected"
  /\ caller' = route
  /\ http' = [status |-> 400, error |-> "Validation failed", message |-> <<>>,
              details |-> <<"errors.array()">>, stored |-> 0]
  /\ UNCHANGED <<args, title, historyContext, personality, titleContext,
                 request, requests, reply, outcome>>

\* request bodies for POST /api/suggestion that pass its validation
NoHistory == [k |-> "undefined", items |-> <<>>]
Bodies ==
  [title : {Text(t) : t \in Titles},
   description : {NoText("undefined"), Text(<<"d">>)},
   title_context : {NoText("undefined"), Text(<<"c">>)},
   personality : {Undefined, Str("red")},
   history : {NoHistory}]

\* lines 61-86: validation, then the handler up to the awaited call of the
\* service
PostSuggestion(body) ==
  /\ received' = body
  /\ req' = Sanitized("route", body)
  /\ IF Valid("route", body)
     THEN /\ Len(topics) < MaxTopics
          /\ topics' = Append(topics, [id |-> Len(topics) + 1, user_id |-> 1,
                                       title |-> req'.title.chars,
                                       description |-> req'.description,
                                       severity_level |-> "medium",
                                       status |-> "active",
                                       updated_at |-> 0])
          /\ Begin("route", req'.title.chars, HistoryOf(findByUserId(1, 10)),
                   (IF req'.personality = Undefined THEN Str("green")
                    ELSE req'.personality),
                   TextOr(req'.title_context, req'.description))
          /\ http' = NoHttp
     ELSE Reject("route") /\ UNCHANGED topics
  /\ UNCHANGED rows
  /\ UNCHANGED <<concurrent, chatting, account>>

\* lines 93-98: the rows handed to AnxietySuggestion.createMany
SuggestionsToCreate(suggestions, topicId, userId) ==
  [i \in 1..Len(suggestions) |->
     [topic_id |-> topicId, user_id |-> userId,
      suggestion_text |-> suggestions[i].text,
      suggestion_type |-> Or(suggestions[i].type, Str("immediate"))]]

\* the INSERT of createMany is rejected when a suggestion_type is not a
\* value of the ENUM column
InsertAccepted(values) ==
  \A i \in 1..Len(values) :
    values[i].suggestion_type.k = "str"
      /\ values[i].suggestion_type.s \in SuggestionTypes

\* lines 113-127: the handler's catch block
RouteCatch(message) ==
  IF Includes(message, "DeepSeek")
  THEN [status |-> 503, error |-> "AI service unavailable",
        message |-> <<"Unable", "to", "generate", "suggestions", "at", "this",
                      "time.", "Please", "try", "again", "later.">>,
        details |-> <<>>, stored |-> 0]
  ELSE [status |-> 500, error |-> "Internal server error",
        message |-> <<"Failed", "to", "generate", "suggestions">>,
        details |-> <<>>, stored |-> 0]

MsgDatabase == <<"Data", "truncated", "for", "column", "suggestion_type">>

\* RouteSettle whose catch block deletes the topic of the request
RouteSettleUndoingTopic ==
  /\ pc = "done"
  /\ caller = "route"
  /\ pc' = "responded"
  /\ LET values == SuggestionsToCreate(outcome.suggestions, Len(topics), 1)
     IN IF outcome.kind = "throw"
        THEN /\ http' = RouteCatch(outcome.message)
             /\ topics' = SubSeq(topics, 1, Len(topics) - 1)
             /\ UNCHANGED rows
        ELSE IF ~InsertAccepted(values)
        THEN http' = RouteCatch(MsgDatabase) /\ UNCHANGED <<rows, topics>>
        ELSE /\ rows' = rows \o values
             /\ http' = [status |-> 201, error |-> "",
                         message |-> <<"Suggestions", "generated", "successfully">>,
                         details |-> <<>>, stored |-> Len(values)]
             /\ UNCHANGED topics
  /\ UNCHANGED <<args, caller, title, historyContext, personality,
                 titleContext, request, requests, reply, outcome, received,
                 req>>
  /\ UNCHANGED <<concurrent, chatting, account>>

\* lines 88-127: the handler after the service returned or threw
RouteSettle ==
  /\ pc = "done"
  /\ caller = "route"
  /\ pc' = "responded"
  /\ LET values == SuggestionsToCreate(outcome.suggestions, Len(topics), 1)
     IN IF outcome.kind = "throw"
        THEN http' = RouteCatch(outcome.message) /\ UNCHANGED rows
        ELSE IF InsertAccepted(values)
        THEN /\ rows' = rows \o values
             /\ http' = [status |-> 201, error |-> "",
                         message |-> <<"Suggestions", "generated", "successfully">>,
                         details |-> <<>>, stored |-> Len(values)]
        ELSE http' = RouteCatch(MsgDatabase) /\ UNCHANGED rows
  /\ UNCHANGED <<args, caller, title, historyContext, personality,
                 titleContext, request, requests, reply, outcome, received,
                 req, topics>>
  /\ UNCHANGED <<concurrent, chatting, account>>

\* the request is over; the tables keep their rows
NextRequest ==
  /\ pc \in {"responded", "rejected"}
  /\ pc' = "idle"
  /\ args' = NoArgs
  /\ caller' = "none"
  /\ title' = <<>>
  /\ historyContext' = <<>>
  /\ personality' = Undefined
  /\ titleContext' = NoText("undefined")
  /\ request' = NoRequest
  /\ requests' = 0
  /\ reply' = NoReply
  /\ outcome' = NoOutcome
  /\ received' = NoBody
  /\ req' = NoBody
  /\ http' = NoHttp
  /\ UNCHANGED <<topics, rows>>
  /\ UNCHANGED <<concurrent, chatting, account>>

RouteParsed ==
  {TopArr(<<Obj(Str("a"), Undefined, Str("long_term"))>>),
   TopObj(Arr(<<Obj(Undefined, Str("b"), Undefined),
                Obj(Str("a"), Undefined, Undefined)>>), Undefined, Undefined),
   TopObj(NotArr(Undefined), Str("c"), Str("x")),
   TopObj(NotArr(Undefined), Undefined, Undefined)}
RouteReplies ==
  {HttpError(401), HttpError(429), HttpError(500), NoResponse, NotJson}
    \cup {Completion(v) : v \in RouteParsed}

NextRoute ==
  \/ \E body \in Bodies : PostSuggestion(body)
  \/ \E r \in RouteReplies : Receive(r)
  \/ RouteSettle
  \/ NextRequest

SpecRoute == Init /\ [][NextRoute]_vars

\* ------------------------------------- POST /api/suggestion-test/...
\* lines 175-181 of the test router: validation, then the handler of
\* /generate up to the awaited call, which passes three arguments
PostGenerate(body) ==
  /\ received' = body
  /\ req' = Sanitized("generate", body)
  /\ IF Valid("generate", body)
     THEN /\ Begin("generate", req'.title.chars, <<>>,
                   (IF req'.personality = Undefined THEN Str("green")
                    ELSE req'.personality),
                   NoText("undefined"))
          /\ http' = NoHttp
     ELSE Reject("generate")
  /\ UNCHANGED <<topics, rows>>
  /\ UNCHANGED <<concurrent, chatting, account>>

\* lines 219-226: /public/generate passes the history of the body
PostPublicGenerate(body) ==
  /\ received' = body
  /\ req' = Sanitized("public", body)
  /\ IF Valid("public", body)
     THEN /\ Begin("public", req'.title.chars, req'.history.items,
                   (IF req'.personality = Undefined THEN Str("green")
                    ELSE req'.personality),
                   NoText("undefined"))
          /\ http' = NoHttp
     ELSE Reject("public")
  /\ UNCHANGED <<topics, rows>>
  /\ UNCHANGED <<concurrent, chatting, account>>

\* lines 199-215: the catch block of /generate
GenerateCatch(message) ==
  IF Includes(message, "DeepSeek") \/ Includes(message, "authentication")
  THEN [status |-> 503, error |-> "AI service unavailable",
        message |-> <<"Unable", "to", "generate", "suggestions", "at", "this",
                      "time.", "Please", "check", "DeepSeek", "API",
                      "configuration.">>,
        details |-> message, stored |-> 0]
  ELSE [status |-> 500, error |-> "Internal server error",
        message |-> <<"Failed", "to", "generate", "suggestions">>,
        details |-> message, stored |-> 0]

\* lines 243-250: the catch block of /public/generate
PublicCatch(message) ==
  [status |-> 500, error |-> "Failed to generate public suggestions",
   message |-> message, details |-> <<>>, stored |-> 0]

\* lines 183-215: /generate after the service returned or threw
GenerateSettle ==
  /\ pc = "done"
  /\ caller = "generate"
  /\ pc' = "responded"
  /\ http' = IF outcome.kind = "throw" THEN GenerateCatch(outcome.message)
             ELSE [status |-> 200, error |-> "",
                   message |-> <<"Suggestions", "generated", "successfully">>,
                   details |-> <<>>, stored |-> 0]
  /\ UNCHANGED <<args, caller, title, historyContext, personality,
                 titleContext, request, requests, reply, outcome, received,
                 req, topics, rows>>
  /\ UNCHANGED <<concurrent, chatting, account>>

\* lines 228-250: /public/generate after the service returned or threw
PublicSettle ==
  /\ pc = "done"
  /\ caller = "public"
  /\ pc' = "responded"
  /\ http' = IF outcome.kind = "throw" THEN PublicCatch(outcome.message)
             ELSE [status |-> 200, error |-> "",
                   message |-> <<"Public", "suggestions", "generated",
                                 "successfully">>,
                   details |-> <<>>, stored |-> 0]
  /\ UNCHANGED <<args, caller, title, historyContext, personality,
                 titleContext, request, requests, reply, outcome, received,
                 req, topics, rows>>
  /\ UNCHANGED <<concurrent, chatting, account>>

\* ------------------------------------------- requests as clients send them
\* a title of n characters
Filled(n) == [i \in 1..n |-> "x"]

SentTitles ==
  {NoText("undefined"), Text(<<>>), Text(<<" ">>), Text(<<"T">>),
   Text(<<" ", "T", " ">>), Text(Filled(TitleMax)), Text(Filled(TitleMax + 1))}
SentHistories ==
  {NoHistory,
   [k |-> "array", items |-> <<>>],
   [k |-> "array",
    items |-> <<[suggestion_text |-> <<"h", "1">>,
                 suggestion_type |-> <<"immediate">>]>>],
   [k |-> "array",
    items |-> <<[suggestion_text |-> <<"h", "1">>, suggestion_type |-> <<>>]>>],
   [k |-> "array",
    items |-> <<[suggestion_text |-> <<"h", "1">>,
                 suggestion_type |-> <<"immediate">>],
                [suggestion_type |-> <<"long_term">>]>>],
   [k |-> "array", items |-> <<Null>>],
   [k |-> "array", items |-> <<Str("h1")>>],
   [k |-> "null", items |-> <<>>],
   [k |-> "string", items |-> <<>>],
   [k |-> "object", items |-> <<>>]}

SentBodies ==
  [title : SentTitles,
   description : {NoText("undefined"), Text(<<"d">>)},
   title_context : {NoText("undefined"), Text(<<" ">>), Text(<<"c">>)},
   personality : {Undefined, Str("yellow"), Str("blue")},
   history : {NoHistory}]
SentTestBodies ==
  [title : SentTitles,
   description : {NoText("undefined")},
   title_context : {NoText("undefined")},
   personality : {Undefined, Str("yellow"), Str("blue")},
   history : SentHistories]

NextIntake ==
  \/ \E body \in SentBodies : PostSuggestion(body)
  \/ \E body \in SentTestBodies : PostGenerate(body)
  \/ \E body \in SentTestBodies : PostPublicGenerate(body)
  \/ \E r \in RouteReplies : Receive(r)
  \/ RouteSettle
  \/ GenerateSettle
  \/ PublicSettle

SpecIntake == Init /\ [][NextIntake]_vars

\* ------------------------ POST /api/chat/sessions/:sessionId/messages
SessionIds == 1..4
UserIds == {1, 2}
ChatContents == {Str("hi"), Str("why")}
StreamContents == {Str("go")}
\* the session closed while messages are sent to it, and the user closing it
ClosedIds == {1}
ClosingUsers == {1}

\* ChatSession.findById: the row, or null
ChatSessionFindById(id) ==
  IF \E i \in 1..Len(sessions) : sessions[i].id = id
  THEN sessions[CHOOSE i \in 1..Len(sessions) : sessions[i].id = id]
  ELSE Null

\* obj.name in JavaScript: undefined when the object has no such property
Property(obj, name) == IF name \in DOMAIN obj THEN obj[name] ELSE Undefined

\* a value a request body or a caller gives for a field
Given(v) == [k |-> "value", v |-> v]

\* the row of a table with the given id replaced
Replace(table, id, row) ==
  [i \in DOMAIN table |-> IF table[i].id = id THEN row ELSE table[i]]

\* the update method of the three models: the loop over the entries of
\* updateData, the early return, and the row the UPDATE statement leaves
UpdatedFields(updateData, allowedFields) ==
  {key \in DOMAIN updateData :
     key \in allowedFields /\ updateData[key].k # "undefined"}
updateAnyField(record, updateData, allowedFields) ==
  LET updates == {key \in DOMAIN updateData \cap DOMAIN record :
                    updateData[key].k # "undefined"}
  IN IF updates = {} THEN record
     ELSE [f \in DOMAIN record |->
             IF f \in updates THEN updateData[f].v
             ELSE IF f = "updated_at" THEN 1 ELSE record[f]]
update(record, updateData, allowedFields) ==
  LET updates == UpdatedFields(updateData, allowedFields)
  IN IF updates = {} THEN record
     ELSE [f \in DOMAIN record |->
             IF f \in updates THEN updateData[f].v
             ELSE IF f = "updated_at" THEN 1 ELSE record[f]]

SessionFields == {"title", "status"}
\* ChatSession archive() and end()
archive(session) == update(session, [status |-> Given("archived")], SessionFields)
end(session) == update(session, [status |-> Given("ended")], SessionFields)
\* ChatSession updateLastMessage()
updateLastMessage(table, id) ==
  [i \in DOMAIN table |->
     IF table[i].id = id THEN [table[i] EXCEPT !.updated_at = 1] ELSE table[i]]

\* ChatMessage.findRecentBySessionId(sessionId, limit): the newest `limit`
\* rows of the session, oldest first
RECURSIVE SelectSession(_, _)
SelectSession(table, sessionId) ==
  IF table = <<>> THEN <<>>
  ELSE (IF Head(table).session_id = sessionId THEN <<Head(table)>> ELSE <<>>)
         \o SelectSession(Tail(table), sessionId)

findRecentBySessionId(table, sessionId, limit) ==
  LET all == SelectSession(table, sessionId)
  IN IF Len(all) <= limit THEN all
     ELSE SubSeq(all, Len(all) - limit + 1, Len(all))

\* ChatMessage.getConversationContext(sessionId, 20)
getConversationContext(table, sessionId, maxMessages) ==
  LET found == findRecentBySessionId(table, sessionId, maxMessages)
  IN [i \in 1..Len(found) |->
        [role |-> IF found[i].message_type = "user" THEN "user" ELSE "assistant",
         content |-> found[i].content]]

\* the row ChatMessage.create inserts
ChatMessageRow(table, sessionId, userId, messageType, content) ==
  [id |-> Len(table) + 1, session_id |-> sessionId, user_id |-> userId,
   message_type |-> messageType, content |-> content]

\* chat_messages.content is TEXT NOT NULL, and a bound parameter cannot be
\* undefined: the INSERT of ChatMessage.create needs a string
ChatInsertAccepted(content) == content.k = "str"
InsertErrors ==
  {<<"Bind", "parameters", "must", "not", "contain", "undefined">>,
   <<"Column", "content", "cannot", "be", "null">>}

\* a 2xx response to the chat completion, and the replies of the chat route
ChatOk(text) ==
  [kind |-> "ok", status |-> 200, content |-> text, usage |-> SomeUsage]
ChatReplies ==
  {ChatOk(Str("there")), ChatOk(Str("because")), HttpError(401),
   HttpError(429), HttpError(500), NoResponse}

MsgChat == <<"Failed", "to", "generate", "chat", "response">>

\* generateChatResponse, service lines 561-652, once its post settled to r
generateChatResponse(r) ==
  IF r.kind = "ok"
  THEN [threw |-> FALSE, message |-> <<>>,
        value |-> [success |-> TRUE, message |-> r.content, usage |-> r.usage]]
  ELSE [threw |-> TRUE,
        message |-> IF r.kind = "status" /\ r.status = 401 THEN MsgAuth
                    ELSE IF r.kind = "status" /\ r.status = 429 THEN MsgRate
                    ELSE MsgChat,
        value |-> [success |-> FALSE]]

\* chat.js lines 281-295: the catch block
ChatCatch(message) ==
  IF Includes(message, "DeepSeek")
  THEN [status |-> 503, error |-> "AI service unavailable",
        user_message |-> Null, ai_message |-> Null]
  ELSE [status |-> 500, error |-> "Internal server error",
        user_message |-> Null, ai_message |-> Null]

\* chat.js lines 205-235: the session is read and checked
PostMessage(sessionId, userId, content) ==
  /\ chat.pc = "idle"
  /\ LET session == ChatSessionFindById(sessionId)
         started == [NoChat EXCEPT !.sessionId = sessionId, !.userId = userId,
                                   !.content = content]
         refused(status, error) ==
           chat' = [started EXCEPT !.pc = "responded",
                      !.answer = [NoAnswer EXCEPT !.status = status,
                                                  !.error = error]]
     IN IF session = Null THEN refused(404, "Not found")
        ELSE IF session.user_id # userId THEN refused(403, "Access denied")
        ELSE IF session.status # "active"
        THEN refused(400, "Invalid session state")
        ELSE chat' = [started EXCEPT !.pc = "checked"]
  /\ UNCHANGED <<messages, stream, sessions>>
  /\ UNCHANGED <<sequential, concurrent, account>>

\* chat.js lines 237-243: the awaited ChatMessage.create of the user message
SaveUserMessage ==
  /\ chat.pc = "checked"
  /\ Len(messages) < MaxChat
  /\ LET userMessage == ChatMessageRow(messages, chat.sessionId, chat.userId,
                                       "user", chat.content)
     IN /\ messages' = Append(messages, userMessage)
        /\ chat' = [chat EXCEPT !.pc = "saved", !.userMessage = userMessage]
  /\ UNCHANGED <<stream, sessions>>
  /\ UNCHANGED <<sequential, concurrent, account>>

\* chat.js lines 245-250: the awaited getConversationContext, then the call
\* of the service
ReadContext ==
  /\ chat.pc = "saved"
  /\ chat' = [chat EXCEPT !.pc = "awaiting",
                !.context = getConversationContext(messages, chat.sessionId, 20)]
  /\ UNCHANGED <<messages, stream, sessions>>
  /\ UNCHANGED <<sequential, concurrent, account>>

\* chat.js lines 250-295: the service returned or threw; the assistant
\* message is created from aiResponse.content
ChatSettle(r) ==
  /\ chat.pc = "awaiting"
  /\ LET aiResponse == generateChatResponse(r)
         content == Property(aiResponse.value, "content")
         userMessage == chat.userMessage
         aiMessage == ChatMessageRow(messages, chat.sessionId, chat.userId,
                                     "assistant", content)
     IN IF aiResponse.threw
        THEN /\ chat' = [chat EXCEPT !.pc = "responded", !.reply = r,
                           !.answer = ChatCatch(aiResponse.message)]
             /\ UNCHANGED <<messages, sessions>>
        ELSE IF ChatInsertAccepted(content)
        THEN /\ messages' = Append(messages, aiMessage)
             /\ sessions' = updateLastMessage(sessions, chat.sessionId)
             /\ chat' = [chat EXCEPT !.pc = "responded", !.reply = r,
                           !.answer = [status |-> 201, error |-> "",
                                       user_message |-> userMessage,
                                       ai_message |-> aiMessage]]
        ELSE /\ \E m \in InsertErrors :
                  chat' = [chat EXCEPT !.pc = "responded", !.reply = r,
                             !.answer = ChatCatch(m)]
             /\ UNCHANGED <<messages, sessions>>
  /\ UNCHANGED stream
  /\ UNCHANGED <<sequential, concurrent, account>>

\* the request is over; the table keeps its rows
NextChatRequest ==
  /\ chat.pc = "responded"
  /\ chat' = NoChat
  /\ UNCHANGED <<messages, stream, sessions>>
  /\ UNCHANGED <<sequential, concurrent, account>>

\* chat.js lines 344-375: the stream handler reads and checks the session
PostStream(sessionId, userId, content) ==
  /\ stream.pc = "idle"
  /\ LET session == ChatSessionFindById(sessionId)
         started == [NoStream EXCEPT !.sessionId = sessionId,
                                     !.userId = userId, !.content = content]
         refused(status) ==
           stream' = [started EXCEPT !.pc = "responded", !.status = status]
     IN IF session = Null THEN refused(404)
        ELSE IF session.user_id # userId THEN refused(403)
        ELSE IF session.status # "active" THEN refused(400)
        ELSE stream' = [started EXCEPT !.pc = "checked"]
  /\ UNCHANGED <<chat, messages, sessions>>
  /\ UNCHANGED <<sequential, concurrent, account>>

\* chat.js lines 377-384: the awaited ChatMessage.create of the user message
StreamSave ==
  /\ stream.pc = "checked"
  /\ Len(messages) < MaxChat
  /\ messages' = Append(messages,
       ChatMessageRow(messages, stream.sessionId, stream.userId, "user",
                      stream.content))
  /\ stream' = [stream EXCEPT !.pc = "saved"]
  /\ UNCHANGED <<chat, sessions>>
  /\ UNCHANGED <<sequential, concurrent, account>>

\* chat.js lines 386-454: the headers and the user_message event are
\* written, the context is read, and deepseekService.streamChatResponse,
\* which the service does not define, is called: the TypeError reaches the
\* catch block, which writes the error event and ends the response
StreamFail ==
  /\ stream.pc = "saved"
  /\ stream' = [stream EXCEPT !.pc = "responded", !.status = 200,
                  !.events = <<"user_message", "error">>]
  /\ UNCHANGED <<chat, messages, sessions>>
  /\ UNCHANGED <<sequential, concurrent, account>>

NextStreamRequest ==
  /\ stream.pc = "responded"
  /\ stream' = NoStream
  /\ UNCHANGED <<chat, messages, sessions>>
  /\ UNCHANGED <<sequential, concurrent, account>>

\* ------------------------------- the requests on one chat session
\* what a request on one stored record was and how it was answered
Answered(name, id, userId, body, status, returned) ==
  [n |-> operation.n + 1, name |-> name, id |-> id, userId |-> userId,
   body |-> body, status |-> status, returned |-> returned]

\* the checks every handler makes first, without the owner check
OwnerCheckSkipped(record, userId) ==
  IF record = Null THEN 404 ELSE 200
\* the checks every handler makes first: 404 without the record, 403 for a
\* record of another user
OwnerCheck(record, userId) ==
  IF record = Null THEN 404
  ELSE IF record.user_id # userId THEN 403
  ELSE 200

\* chat.js lines 136-164: GET /sessions/:sessionId
GetSession(sessionId, userId) ==
  /\ operation.n < MaxRequests
  /\ LET session == ChatSessionFindById(sessionId)
         status == OwnerCheck(session, userId)
     IN operation' = Answered("GetSession", sessionId, userId, <<>>, status,
                              IF status = 200 THEN session ELSE Null)
  /\ UNCHANGED <<feedback, users, auth>>
  /\ UNCHANGED <<sequential, concurrent, chatting>>

\* the bodies sent to PUT /sessions/:sessionId
SessionBodies ==
  {[title |-> Given("new")],
   [status |-> Given("archived")],
   [status |-> Given("active"), title |-> Undefined],
   [status |-> Given("bogus")],
   [title |-> Given("")],
   [user_id |-> Given(2), id |-> Given(4)],
   [title |-> Given("new"), user_id |-> Given(2), updated_at |-> Given(0)]}

\* chat.js lines 167-176: title optional with 1 to 200 characters, status
\* optional and one of the three
SessionBodyValid(body) ==
  /\ Property(body, "title").k = "undefined" \/ body.title.v # ""
  /\ \/ Property(body, "status").k = "undefined"
     \/ body.status.v \in {"active", "ended", "archived"}

\* a request that reads one session, checks its owner and then writes the
\* row `written`, which the method of the model made of the row read
SessionWrite(name, sessionId, userId, body, written) ==
  /\ operation.n < MaxRequests
  /\ LET session == ChatSessionFindById(sessionId)
         status == OwnerCheck(session, userId)
     IN IF status = 200
        THEN /\ sessions' = Replace(sessions, sessionId, written)
             /\ operation' = Answered(name, sessionId, userId, body, 200,
                                      written)
        ELSE /\ operation' = Answered(name, sessionId, userId, body, status,
                                      Null)
             /\ UNCHANGED sessions
  /\ UNCHANGED <<chat, messages, stream>>
  /\ UNCHANGED <<feedback, users, auth>>
  /\ UNCHANGED <<sequential, concurrent>>

\* chat.js lines 167-202: PUT /sessions/:sessionId
UpdateSession(sessionId, userId, body) ==
  IF SessionBodyValid(body)
  THEN SessionWrite("UpdateSession", sessionId, userId, body,
         update(ChatSessionFindById(sessionId), body, SessionFields))
  ELSE /\ operation.n < MaxRequests
       /\ operation' = Answered("UpdateSession", sessionId, userId, body, 400,
                                Null)
       /\ UNCHANGED <<feedback, users, auth>>
       /\ UNCHANGED <<sequential, concurrent, chatting>>

\* chat.js lines 502-531: POST /sessions/:sessionId/archive
ArchiveSession(sessionId, userId) ==
  SessionWrite("ArchiveSession", sessionId, userId, <<>>,
               archive(ChatSessionFindById(sessionId)))

\* chat.js lines 534-563: POST /sessions/:sessionId/end
EndSession(sessionId, userId) ==
  SessionWrite("EndSession", sessionId, userId, <<>>,
               end(ChatSessionFindById(sessionId)))

\* ------------------------------------- the requests on one topic
\* AnxietyTopic.findById: the row, or null
AnxietyTopicFindById(id) ==
  IF \E i \in 1..Len(topics) : topics[i].id = id
  THEN topics[CHOOSE i \in 1..Len(topics) : topics[i].id = id]
  ELSE Null

TopicFields == {"title", "description", "severity_level", "status"}

\* suggestion.js lines 163-194: GET /topics/:id
GetTopic(topicId, userId) ==
  /\ operation.n < MaxRequests
  /\ LET topic == AnxietyTopicFindById(topicId)
         status == OwnerCheck(topic, userId)
     IN operation' = Answered("GetTopic", topicId, userId, <<>>, status,
                              IF status = 200 THEN topic ELSE Null)
  /\ UNCHANGED <<feedback, users, auth>>
  /\ UNCHANGED <<sequential, concurrent, chatting>>

\* the bodies sent to PUT /topics/:id
TopicBodies ==
  {[status |-> Given("resolved")],
   [title |-> Given(<<"N">>), user_id |-> Given(2), id |-> Given(4)],
   [user_id |-> Given(2), updated_at |-> Given(0)],
   [severity_level |-> Given("none")]}

\* suggestion.js lines 197-203: the validation chain of the update
TopicBodyValid(body) ==
  /\ \/ Property(body, "title").k = "undefined"
     \/ Len(body.title.v) >= 1 /\ Len(body.title.v) <= TitleMax
  /\ \/ Property(body, "severity_level").k = "undefined"
     \/ body.severity_level.v \in {"low", "medium", "high", "critical"}
  /\ \/ Property(body, "status").k = "undefined"
     \/ body.status.v \in {"active", "resolved", "archived"}

\* suggestion.js lines 197-233: PUT /topics/:id
UpdateTopic(topicId, userId, body) ==
  /\ operation.n < MaxRequests
  /\ LET topic == AnxietyTopicFindById(topicId)
         status == OwnerCheck(topic, userId)
         written == update(topic, body, TopicFields)
     IN IF ~ TopicBodyValid(body)
        THEN /\ operation' = Answered("UpdateTopic", topicId, userId, body,
                                      400, Null)
             /\ UNCHANGED topics
        ELSE IF status = 200
        THEN /\ topics' = Replace(topics, topicId, written)
             /\ operation' = Answered("UpdateTopic", topicId, userId, body,
                                      200, written)
        ELSE /\ operation' = Answered("UpdateTopic", topicId, userId, body,
                                      status, Null)
             /\ UNCHANGED topics
  /\ UNCHANGED <<handling, rows>>
  /\ UNCHANGED <<feedback, users, auth>>
  /\ UNCHANGED <<concurrent, chatting>>

\* ------------------------------ the requests on one suggestion
\* the feedback columns of a suggestion: NULL until a feedback was recorded
FeedbackOf(id) ==
  IF \E f \in feedback : f.id = id
  THEN CHOOSE f \in feedback : f.id = id
  ELSE [id |-> id, is_helpful |-> "NULL", helpful_rating |-> 0]

\* AnxietySuggestion.findById: the row with its id, or null
AnxietySuggestionFindById(id) ==
  IF id \in 1..Len(rows)
  THEN [id |-> id, user_id |-> rows[id].user_id,
        topic_id |-> rows[id].topic_id,
        is_helpful |-> FeedbackOf(id).is_helpful,
        helpful_rating |-> FeedbackOf(id).helpful_rating]
  ELSE Null

\* AnxietySuggestion updateFeedback, lines 115-140
updateFeedback(suggestion, feedbackData) ==
  LET is_helpful == Property(feedbackData, "is_helpful")
      helpful_rating == Property(feedbackData, "helpful_rating")
      rated == helpful_rating.k # "undefined" /\ helpful_rating.v >= 1
                 /\ helpful_rating.v <= 5
  IN [suggestion EXCEPT
        !.is_helpful = IF is_helpful.k # "undefined" THEN is_helpful.v ELSE @,
        !.helpful_rating = IF rated THEN helpful_rating.v ELSE @]

\* the bodies sent to POST /feedback/:id
FeedbackBodies ==
  {[is_helpful |-> Given("true")],
   [helpful_rating |-> Given(5), user_id |-> Given(2)],
   [helpful_rating |-> Given(9)]}

\* validateFeedback, suggestion.js lines 36-46
FeedbackBodyValid(body) ==
  /\ \/ Property(body, "is_helpful").k = "undefined"
     \/ body.is_helpful.v \in {"true", "false"}
  /\ \/ Property(body, "helpful_rating").k = "undefined"
     \/ body.helpful_rating.v \in 1..5

\* suggestion.js lines 260-293: POST /feedback/:id
PostFeedback(suggestionId, userId, body) ==
  /\ operation.n < MaxRequests
  /\ LET suggestion == AnxietySuggestionFindById(suggestionId)
         status == OwnerCheck(suggestion, userId)
         written == updateFeedback(suggestion, body)
     IN IF ~ FeedbackBodyValid(body)
        THEN /\ operation' = Answered("PostFeedback", suggestionId, userId,
                                      body, 400, Null)
             /\ UNCHANGED feedback
        ELSE IF status = 200
        THEN /\ feedback' =
                  {f \in feedback : f.id # suggestionId}
                    \cup {[id |-> suggestionId,
                           is_helpful |-> written.is_helpful,
                           helpful_rating |-> written.helpful_rating]}
             /\ operation' = Answered("PostFeedback", suggestionId, userId,
                                      body, 200, written)
        ELSE /\ operation' = Answered("PostFeedback", suggestionId, userId,
                                      body, status, Null)
             /\ UNCHANGED feedback
  /\ UNCHANGED <<users, auth>>
  /\ UNCHANGED <<sequential, concurrent, chatting>>

\* chat.js lines 299-341: GET /sessions/:sessionId/messages
GetMessages(sessionId, userId) ==
  /\ operation.n < MaxRequests
  /\ LET session == ChatSessionFindById(sessionId)
         status == OwnerCheck(session, userId)
     IN operation' = Answered("GetMessages", sessionId, userId, <<>>, status,
                              IF status = 200
                              THEN [messages |-> SelectSession(messages, sessionId)]
                              ELSE Null)
  /\ UNCHANGED <<feedback, users, auth>>
  /\ UNCHANGED <<sequential, concurrent, chatting>>

NextChat ==
  \/ \E sessionId \in SessionIds, userId \in UserIds, content \in ChatContents :
       PostMessage(sessionId, userId, content)
  \/ SaveUserMessage
  \/ ReadContext
  \/ \E r \in ChatReplies : ChatSettle(r)
  \/ NextChatRequest
  \/ \E sessionId \in SessionIds, userId \in UserIds, content \in StreamContents :
       PostStream(sessionId, userId, content)
  \/ StreamSave
  \/ StreamFail
  \/ NextStreamRequest
  \/ \E sessionId \in ClosedIds, userId \in ClosingUsers :
       \/ EndSession(sessionId, userId)
       \/ ArchiveSession(sessionId, userId)

SpecChat == Init /\ [][NextChat]_vars

\* ------------------------------------------------- authenticateToken
\* the Authorization header: absent, or a scheme word and what follows the
\* first space. A token verifies with the payload id it was signed for, has
\* expired, or is not a token jwt.verify accepts
Header(scheme, token) == [k |-> "str", scheme |-> scheme, token |-> token]
Tokens ==
  {[kind |-> "valid", id |-> 1], [kind |-> "valid", id |-> 2],
   [kind |-> "valid", id |-> 3], [kind |-> "valid", id |-> 9],
   [kind |-> "expired", id |-> 1], [kind |-> "invalid", id |-> 1]}
Headers ==
  {NoHeader, Header("Bearer", NoToken)}
    \cup {Header("Bearer", t) : t \in Tokens}
    \cup {Header("Token", [kind |-> "valid", id |-> 1])}

\* authHeader && authHeader.split(' ')[1]
HeaderToken(header) == IF header.k = "undefined" THEN NoToken ELSE header.token

\* the row of table users with this id, active or not
UserRow(id) ==
  users[CHOOSE i \in 1..Len(users) : users[i].id = id]

\* User.findById without its is_active condition
UserFindByIdInactiveToo(id) ==
  IF \E i \in 1..Len(users) : users[i].id = id
  THEN users[CHOOSE i \in 1..Len(users) : users[i].id = id]
  ELSE Null
\* User.findById: the row with this id when it is active, or null
UserFindById(id) ==
  IF \E i \in 1..Len(users) : users[i].id = id /\ users[i].is_active
  THEN users[CHOOSE i \in 1..Len(users) : users[i].id = id]
  ELSE Null

\* the middleware answered 401 itself
Denied(header, message) ==
  [header |-> header, status |-> 401, message |-> message, user |-> Null,
   next |-> FALSE, handled |-> FALSE]

\* authenticateToken, lines 18-67
Authenticate(header) ==
  /\ LET token == HeaderToken(header)
         user == UserFindById(token.id)
     IN auth' =
          IF token.kind = "none" THEN Denied(header, "No token provided")
          ELSE IF token.kind = "invalid" THEN Denied(header, "Invalid token")
          ELSE IF token.kind = "expired" THEN Denied(header, "Token expired")
          ELSE IF user = Null
          THEN Denied(header, "Invalid token - user not found")
          ELSE [header |-> header, status |-> 0, message |-> "",
                user |-> user, next |-> TRUE, handled |-> FALSE]
  /\ UNCHANGED <<operation, feedback, users>>
  /\ UNCHANGED <<sequential, concurrent, chatting>>

UserFields == {"full_name", "avatar_url"}
\* the bodies sent to PUT /profile
ProfileBodies ==
  {[full_name |-> Given("zed")],
   [avatar_url |-> Given("http://a.b/c"), id |-> Given(2)],
   [is_active |-> Given(FALSE), id |-> Given(2)],
   [full_name |-> Given("")]}

\* the validation chain of PUT /profile
ProfileBodyValid(body) ==
  /\ Property(body, "full_name").k = "undefined" \/ body.full_name.v # ""
  /\ \/ Property(body, "avatar_url").k = "undefined"
     \/ body.avatar_url.v = "http://a.b/c"

\* GET /profile behind authenticateToken
GetProfile ==
  /\ auth.next /\ ~ auth.handled
  /\ operation.n < MaxRequests
  /\ auth' = [auth EXCEPT !.handled = TRUE]
  /\ operation' = Answered("GetProfile", auth.user.id, auth.user.id, <<>>, 200,
                           auth.user)
  /\ UNCHANGED <<feedback, users>>
  /\ UNCHANGED <<sequential, concurrent, chatting>>

\* PUT /profile behind authenticateToken: req.user.update({full_name,
\* avatar_url}), whose UPDATE names the row by id and whose result is
\* User.findById read again
PutProfile(body) ==
  /\ auth.next /\ ~ auth.handled
  /\ operation.n < MaxRequests
  /\ auth' = [auth EXCEPT !.handled = TRUE]
  /\ LET id == auth.user.id
         updateData == [full_name |-> Property(body, "full_name"),
                        avatar_url |-> Property(body, "avatar_url")]
         stored == UserRow(id)
         written == Replace(users, id, update(stored, updateData, UserFields))
         found == IF stored.is_active
                  THEN update(stored, updateData, UserFields) ELSE Null
     IN IF ~ ProfileBodyValid(body)
        THEN /\ operation' = Answered("UpdateProfile", id, id, body, 400, Null)
             /\ UNCHANGED users
        ELSE IF UpdatedFields(updateData, UserFields) = {}
        THEN /\ operation' = Answered("UpdateProfile", id, id, body, 200,
                                      auth.user)
             /\ UNCHANGED users
        ELSE /\ users' = written
             /\ operation' = Answered("UpdateProfile", id, id, body,
                                      IF found = Null THEN 500 ELSE 200, found)
  /\ UNCHANGED feedback
  /\ UNCHANGED <<sequential, concurrent, chatting>>

\* User deactivate(), called on a loaded user
deactivate(id) ==
  /\ UserFindById(id) # Null
  /\ users' = Replace(users, id,
       [UserFindById(id) EXCEPT !.is_active = FALSE, !.updated_at = 1])
  /\ UNCHANGED <<operation, feedback, auth>>
  /\ UNCHANGED <<sequential, concurrent, chatting>>

NextAuth ==
  \/ \E header \in Headers : Authenticate(header)
  \/ GetProfile
  \/ \E body \in ProfileBodies : PutProfile(body)
  \/ \E id \in UserIds : deactivate(id)

SpecAuth == Init /\ [][NextAuth]_vars

\* ------------------ the requests on stored records, by either user
\* tables anxiety_topics and anxiety_suggestions as the requests find them:
\* one topic with one suggestion for each of the two users
StoredTopics ==
  <<[id |-> 1, user_id |-> 1, title |-> <<"T">>, description |-> Text(<<"d">>),
     severity_level |-> "medium", status |-> "active", updated_at |-> 0],
    [id |-> 2, user_id |-> 2, title |-> <<"T">>, description |-> Text(<<"d">>),
     severity_level |-> "medium", status |-> "active", updated_at |-> 0]>>
StoredSuggestions ==
  <<[topic_id |-> 1, user_id |-> 1, suggestion_text |-> Str("b"),
     suggestion_type |-> Str("immediate")],
    [topic_id |-> 2, user_id |-> 2, suggestion_text |-> Str("b"),
     suggestion_type |-> Str("immediate")]>>
\* the ids the requests address: a record of user 1, one of user 2, none
RecordIds == {1, 2, 4}
\* the user making the requests
Actors == {1}
OwnerContents == {Str("hi")}

InitStored ==
  /\ args = NoArgs
  /\ pc = "idle"
  /\ caller = "none"
  /\ title = <<>>
  /\ historyContext = <<>>
  /\ personality = Undefined
  /\ titleContext = NoText("undefined")
  /\ request = NoRequest
  /\ requests = 0
  /\ reply = NoReply
  /\ outcome = NoOutcome
  /\ received = NoBody
  /\ req = NoBody
  /\ http = NoHttp
  /\ topics = StoredTopics
  /\ rows = StoredSuggestions
  /\ calls = [c \in CallIds |-> IdleCall]
  /\ client = constructor
  /\ health = NoProbe
  /\ chat = NoChat
  /\ messages = <<>>
  /\ stream = NoStream
  /\ sessions = ChatSessions
  /\ operation = NoOp
  /\ feedback = {}
  /\ users = Users
  /\ auth = NoAuth

\* no send is in progress
Quiet == chat.pc = "idle"

\* the requests are handled one at a time
NextOwner ==
  \/ /\ Quiet
     /\ \E id \in RecordIds, userId \in Actors :
          \/ GetSession(id, userId)
          \/ GetMessages(id, userId)
          \/ EndSession(id, userId)
          \/ ArchiveSession(id, userId)
          \/ GetTopic(id, userId)
          \/ \E body \in SessionBodies : UpdateSession(id, userId, body)
          \/ \E body \in TopicBodies : UpdateTopic(id, userId, body)
          \/ \E body \in FeedbackBodies : PostFeedback(id, userId, body)
          \/ \E content \in OwnerContents : PostMessage(id, userId, content)
  \/ /\ Quiet
     /\ \/ \E userId \in Actors :
             Authenticate(Header("Bearer", [kind |-> "valid", id |-> userId]))
        \/ \E body \in ProfileBodies : PutProfile(body)
  \/ SaveUserMessage
  \/ ReadContext
  \/ ChatSettle(NoResponse)
  \/ NextChatRequest

SpecOwner == InitStored /\ [][NextOwner]_vars

\* -------------------------------------- GET /api/suggestion-test/health
\* the answer of the handler with the 200 reserved for a healthy probe
HealthAnswerByProbe(result) ==
  IF result.kind = "return" /\ result.success
  THEN [status |-> 200,
        body |-> [status |-> "OK", service |-> "suggestion", deepseek |-> result]]
  ELSE [status |-> 503,
        body |-> [status |-> "ERROR", service |-> "suggestion",
                  error |-> result.error]]

\* lines 321-334 of the test router: the answer for what checkHealth
\* returned, or the catch block when it threw
HealthAnswer(result) ==
  IF result.kind = "return"
  THEN [status |-> 200,
        body |-> [status |-> "OK", service |-> "suggestion", deepseek |-> result]]
  ELSE [status |-> 503,
        body |-> [status |-> "ERROR", service |-> "suggestion",
                  error |-> result.error]]

\* lines 316-319: the handler calls checkHealth, as call c of the instance
GetHealth(c) ==
  /\ health.pc = "idle"
  /\ ProbeCall(c)
  /\ health' = [NoProbe EXCEPT !.pc = "awaiting", !.call = c]
  /\ UNCHANGED client
  /\ UNCHANGED <<sequential, chatting, account>>

\* lines 321-334: checkHealth has settled and the handler answers
HealthRespond ==
  /\ health.pc = "awaiting"
  /\ calls[health.call].pc = "done"
  /\ health' = [health EXCEPT !.pc = "responded",
                   !.answer = HealthAnswer(calls[health.call].result)]
  /\ UNCHANGED <<calls, client>>
  /\ UNCHANGED <<sequential, chatting, account>>

\* the request is over
NextHealthRequest ==
  /\ health.pc = "responded"
  /\ health' = NoProbe
  /\ UNCHANGED <<calls, client>>
  /\ UNCHANGED <<sequential, chatting, account>>

\* test_personality_api.js lines 122-141: checkHealth of the test run; axios
\* rejects an answer outside 2xx and the catch returns false
TestCheckHealth(answer) ==
  IF answer.status >= 200 /\ answer.status < 300
  THEN Truthy(Property(answer.body, "success"))
  ELSE FALSE

NextHealth ==
  \/ \E c \in CallIds : GetHealth(c)
  \/ \E c \in CallIds : StartHealth(c)
  \/ \E c \in CallIds, r \in ProbeReplies : SettleCall(c, r)
  \/ HealthRespond
  \/ NextHealthRequest

SpecHealth == Init /\ [][NextHealth]_vars

\* ======================================================== properties
\* Vocabulary of the statements below, independent of the code's operators.

\* a property is present when the object carries it, whatever its value
Present(v) == v.k # "undefined"

\* the invocation has processed a completion whose text is JSON
Completed == pc \in {"done", "responded"} /\ reply.kind = "ok" /\ reply.json

\* the three accepted shapes, as the specification words them
IsArray == reply.value.k = "arr"
HasSuggestionsArray == reply.value.k = "obj" /\ reply.value.suggestions.k = "arr"
HasMessage == reply.value.k = "obj" /\ Present(reply.value.message)
ListOfReply ==
  IF IsArray THEN reply.value.items ELSE reply.value.suggestions.items

Immediate == Str("immediate")
EmptyString == Str("")

\* no failure of any kind was surfaced and a result was returned
ReturnedList(l) == outcome.kind = "return" /\ outcome.suggestions = l

\* ---------------------------------------------------------------- C1
\* C1 (as stated): for a list-shaped completion the result has, for every
\* element, the record whose text is the element's message if present, else
\* its text if present, else "", and whose type is the element's type if
\* present, else "immediate".
C1_PresentItem(item) ==
  [text |-> IF Present(item.message) THEN item.message
            ELSE IF Present(item.text) THEN item.text ELSE EmptyString,
   type |-> IF Present(item.type) THEN item.type ELSE Immediate]

C1_ListElementsMapped ==
  (Completed /\ (IsArray \/ HasSuggestionsArray)) =>
    ReturnedList([i \in 1..Len(ListOfReply) |-> C1_PresentItem(ListOfReply[i])])

\* ---------------------------------------------------------------- C2
\* C2 (as stated): a non-array object without an array `suggestions` but with
\* a `message` field gives exactly one record, text the message and type the
\* object's type, or "immediate" when the type is absent.
C2_MessagePresentGivesOne ==
  (Completed /\ ~IsArray /\ ~HasSuggestionsArray /\ HasMessage) =>
    ReturnedList(<< [text |-> reply.value.message,
                     type |-> IF Present(reply.value.type)
                              THEN reply.value.type ELSE Immediate] >>)

\* C2 (amended): the same object gives exactly that one record when its
\* message is truthy, the type being the object's type when that is truthy
\* and "immediate" otherwise.
C2_TruthyMessageGivesOne ==
  (Completed /\ ~IsArray /\ ~HasSuggestionsArray /\ HasMessage
     /\ Truthy(reply.value.message)) =>
    ReturnedList(<< [text |-> reply.value.message,
                     type |-> IF Truthy(reply.value.type)
                              THEN reply.value.type ELSE Immediate] >>)

C2_Witness ==
  /\ pc = "done"
  /\ reply = Completion(TopObj(NotArr(Undefined), Str("c"), Str("x")))
  /\ outcome.suggestions = << [text |-> Str("c"), type |-> Str("x")] >>

\* ---------------------------------------------------------------- C3
\* C3 (as stated): the shapes are tried in the order array, `suggestions`
\* array, `message`; an object with both an array `suggestions` and a message
\* is normalized from `suggestions` only (one record per element of it, none
\* for the message), and an object whose `suggestions` is present but not an
\* array and which has a message gives the one-element message result.
C3_FromSuggestionsOnly ==
  (Completed /\ HasSuggestionsArray /\ outcome.kind = "return") =>
    /\ Len(outcome.suggestions) = Len(reply.value.suggestions.items)
    /\ \A i \in 1..Len(outcome.suggestions) :
         LET item == reply.value.suggestions.items[i]
             made == outcome.suggestions[i]
         IN /\ made.text \in {item.message, item.text, EmptyString}
            /\ made.type \in {item.type, Immediate}

C3_OneFromMessage ==
  /\ outcome.kind = "return"
  /\ Len(outcome.suggestions) = 1
  /\ outcome.suggestions[1].text = reply.value.message

C3_FirstMatchWins ==
  /\ C3_FromSuggestionsOnly
  /\ (Completed /\ reply.value.k = "obj" /\ reply.value.suggestions.k # "arr"
        /\ Present(reply.value.suggestions) /\ HasMessage) => C3_OneFromMessage

\* C3 (amended): as stated, the third shape being an object whose message is
\* truthy.
C3_FirstTruthyMatchWins ==
  /\ C3_FromSuggestionsOnly
  /\ (Completed /\ reply.value.k = "obj" /\ reply.value.suggestions.k # "arr"
        /\ Present(reply.value.suggestions) /\ HasMessage
        /\ Truthy(reply.value.message)) => C3_OneFromMessage

C3_Witness ==
  /\ pc = "done"
  /\ reply.kind = "ok"
  /\ reply.value.suggestions = Arr(<<Obj(Undefined, Str("b"), Undefined)>>)
  /\ reply.value.message = Str("c")
  /\ outcome.suggestions = << [text |-> Str("b"), type |-> Immediate] >>

\* ---------------------------------------------------------------- C4
\* C4 (as stated): a completion that is JSON but has none of the three shapes
\* (an object without message, a number, a string, a boolean, null) makes the
\* invocation return an empty list and no error.
C4_NoShapeGivesEmptyList ==
  (Completed /\ ~IsArray /\ ~HasSuggestionsArray /\ ~HasMessage) =>
    ReturnedList(<<>>)

\* ---------------------------------------------------------------- C5
\* C5 (as stated): a completion that is not JSON makes the invocation fail
\* with an error the caller can tell apart from the errors of an upstream
\* failure (authentication, rate limit, unavailable), and return no result.
C5_FormatErrorIsDistinct ==
  (pc = "done" /\ reply.kind = "ok" /\ ~reply.json) =>
    /\ outcome.kind = "throw"
    /\ outcome.suggestions = <<>>
    /\ \A f \in Failures : outcome.message # Settle(f, personality).message

\* ---------------------------------------------------------------- C6
\* C6: an upstream 401 gives the authentication error, a 429 the rate-limit
\* error, every other upstream failure (other status, timeout, no response)
\* the generic generation error; the three errors are pairwise distinct.
C6_FailureKinds ==
  /\ MsgAuth # MsgRate /\ MsgAuth # MsgGenerate /\ MsgRate # MsgGenerate
  /\ (pc = "done" /\ reply.kind \in {"status", "noresponse"}) =>
       /\ outcome.kind = "throw"
       /\ outcome.message =
            (IF reply.kind = "status" /\ reply.status = 401 THEN MsgAuth
             ELSE IF reply.kind = "status" /\ reply.status = 429 THEN MsgRate
             ELSE MsgGenerate)

C6_Witness ==
  pc = "done" /\ reply = HttpError(429) /\ outcome = Thrown(MsgRate)

\* ---------------------------------------------------------------- C7
\* C7 (as stated): POST /api/suggestion answers a failed generation with 401
\* for the authentication kind, 429 for the rate-limit kind, 503 for the
\* upstream-unavailable kind and 500 for the response-format kind.
C7_StatusPerKind ==
  (pc = "responded" /\ outcome.kind = "throw") =>
    http.status =
      (IF reply.kind = "status" /\ reply.status = 401 THEN 401
       ELSE IF reply.kind = "status" /\ reply.status = 429 THEN 429
       ELSE IF reply.kind \in {"status", "noresponse"} THEN 503
       ELSE 500)

\* ---------------------------------------------------------------- C8
\* C8: an invocation posts exactly once to the completion endpoint, whatever
\* its arguments and however it ends; no failure causes a second post.
C8_ExactlyOneRequest ==
  /\ pc = "idle" => requests = 0
  /\ pc \in {"awaiting", "done", "responded"} => requests = 1

C8_Witness ==
  pc = "done" /\ reply = NoResponse /\ outcome.kind = "throw" /\ requests = 1

\* ---------------------------------------------------------------- C9
\* C9: 'green', 'yellow' and 'red' select three non-empty, pairwise distinct
\* prompts, and every other personality argument, or none, selects the prompt
\* of 'green'.
C9_PromptOf(p) ==
  CASE p = Str("yellow") -> getYellowPersonalityPromptV2
    [] p = Str("red") -> getRedPersonalityPromptV2
    [] OTHER -> getGreenPersonalityPromptV2

C9_PromptSelection ==
  pc # "idle" =>
    /\ request.system = C9_PromptOf(args.personality)
    /\ request.system.length > 0
    /\ \A p, q \in {Str("green"), Str("yellow"), Str("red")} :
         p # q => C9_PromptOf(p) # C9_PromptOf(q)

C9_Witness ==
  /\ pc = "awaiting"
  /\ args.personality = Str("blue")
  /\ request.system = getGreenPersonalityPromptV2

\* --------------------------------------------------------------- C10
\* C10: with N > 0 history entries the user prompt contains the N texts,
\* numbered 1..N in the given order, and after them the instruction to give
\* different suggestions; with no history it contains neither the listing
\* nor the instruction.

\* first position >= start at which pattern occurs in prompt, 0 if none
RECURSIVE C10_Find(_, _, _)
C10_Find(prompt, pattern, start) ==
  IF start + Len(pattern) - 1 > Len(prompt) THEN 0
  ELSE IF SubSeq(prompt, start, start + Len(pattern) - 1) = pattern THEN start
  ELSE C10_Find(prompt, pattern, start + 1)

\* position just after entries i..N found in order from start, 0 if not found
RECURSIVE C10_Listed(_, _, _, _)
C10_Listed(prompt, history, i, start) ==
  IF i > Len(history) THEN start
  ELSE LET entry == <<ToString(i), FragDot>> \o history[i].suggestion_text
           at == C10_Find(prompt, entry, start)
       IN IF at = 0 THEN 0
          ELSE C10_Listed(prompt, history, i + 1, at + Len(entry))

C10_HistoryInPrompt ==
  pc # "idle" =>
    LET prompt == request.user
        history == args.historyContext
        after == C10_Listed(prompt, history, 1, 1)
    IN IF Len(history) > 0
       THEN after > 0 /\ C10_Find(prompt, <<FragDiffer>>, after) > 0
       ELSE \A i \in 1..Len(prompt) : prompt[i] \notin {FragHistory, FragDiffer}

C10_Witness ==
  /\ pc = "awaiting"
  /\ Len(args.historyContext) = 2
  /\ args.historyContext[1] # args.historyContext[2]
  /\ request.user[Len(request.user)] = FragDiffer

\* --------------------------------------------------------------- C11
\* C11: when the context argument is absent, null, empty or only white
\* space, the user prompt has no supplementary-description line (with no
\* history it is exactly the prefix and the topic); otherwise the line is
\* there, right after the topic, carrying the context without its leading
\* and trailing white space and nothing else.
C11_Blank(c) ==
  c.k # "str" \/ \A i \in 1..Len(c.chars) : c.chars[i] \in WhiteSpace

\* the characters from the first to the last one that is not white space
C11_Core(cs) ==
  LET solid == {i \in 1..Len(cs) : cs[i] \notin WhiteSpace}
      first == CHOOSE i \in solid : \A j \in solid : i <= j
      last == CHOOSE i \in solid : \A j \in solid : j <= i
  IN [i \in 1..(last - first + 1) |-> cs[first + i - 1]]

C11_ContextLine ==
  pc # "idle" =>
    LET prompt == request.user
        c == args.titleContext
        head == <<FragTopic>> \o args.title
    IN /\ SubSeq(prompt, 1, Len(head)) = head
       /\ IF C11_Blank(c)
          THEN /\ \A i \in 1..Len(prompt) : prompt[i] # FragContext
               /\ args.historyContext = <<>> => prompt = head
          ELSE LET line == <<FragContext>> \o C11_Core(c.chars)
                   rest == SubSeq(prompt, Len(head) + 1, Len(prompt))
               IN /\ SubSeq(rest, 1, Len(line)) = line
                  /\ Len(rest) > Len(line) => rest[Len(line) + 1] = FragHistory
                  /\ args.historyContext = <<>> => rest = line

C11_Witness ==
  /\ pc = "awaiting"
  /\ args.titleContext = Text(<<" ", "c", " ", "d", " ">>)
  /\ args.historyContext = <<>>
  /\ request.user = <<FragTopic, "T", FragContext, "c", " ", "d">>

\* --------------------------------------------------------------- C12
\* C12 (as stated): the personality of every returned result is green,
\* yellow or red and is the one whose prompt the request carried.
C12_ResultNamesPromptUsed ==
  (pc = "done" /\ outcome.kind = "return") =>
    /\ outcome.personality \in {Str("green"), Str("yellow"), Str("red")}
    /\ request.system = C9_PromptOf(outcome.personality)
    /\ args.personality \in {Str("green"), Str("yellow"), Str("red")}
         => outcome.personality = args.personality

\* --------------------------------------------------------------- C13
\* C13: the posted body has exactly two messages, first the system message
\* with the selected personality prompt, then the user message with the
\* composed prompt, and a model name, temperature 2.0, a positive max_tokens
\* and response_format json_object.
C13_RequestBody ==
  pc # "idle" =>
    /\ request.roles = <<"system", "user">>
    /\ request.system = C9_PromptOf(args.personality)
    /\ Len(request.user) > Len(args.title)
    /\ request.user[1] = FragTopic
    /\ SubSeq(request.user, 2, 1 + Len(args.title)) = args.title
    /\ request.model # ""
    /\ request.temperature = 2
    /\ request.max_tokens > 0
    /\ request.response_format = "json_object"

C13_Witness ==
  /\ pc = "awaiting"
  /\ args.personality = Str("yellow")
  /\ request.roles = <<"system", "user">>
  /\ request.system = getYellowPersonalityPromptV2
  /\ request.user = <<FragTopic, "T">>

\* --------------------------------------------------------------- C14
\* C14: a checkHealth call posts one fixed probe, a single user message
\* "Hello" with a budget of 10 tokens; it always returns and never throws:
\* healthy with the model name of the response when the probe succeeded,
\* unhealthy with a non-empty error text when the probe failed in any way.
C14_Probe(rq) ==
  /\ rq.url = "/chat/completions"
  /\ Len(rq.messages) = 1
  /\ rq.messages[1] = [role |-> "user", content |-> <<"Hello">>]
  /\ rq.max_tokens \in 1..16

C14_HealthNeverFails ==
  \A c \in CallIds :
    calls[c].op = "health" =>
      /\ calls[c].posts = 1
      /\ C14_Probe(calls[c].request)
      /\ calls[c].pc = "done" =>
           /\ calls[c].result.kind = "return"
           /\ IF calls[c].reply.kind = "ok"
              THEN /\ calls[c].result.success
                   /\ calls[c].result.status = "healthy"
                   /\ calls[c].result.model = calls[c].reply.model
              ELSE /\ ~calls[c].result.success
                   /\ calls[c].result.status = "unhealthy"
                   /\ calls[c].result.error # <<>>

C14_Witness ==
  \E c, d \in CallIds :
    /\ calls[c].op = "health" /\ calls[c].pc = "done"
    /\ calls[c].reply = HttpError(429)
    /\ calls[c].result.status = "unhealthy"
    /\ calls[d].op = "health" /\ calls[d].pc = "done"
    /\ calls[d].reply.kind = "ok"
    /\ calls[d].result.model = Str("deepseek-v3")

\* --------------------------------------------------------------- C15
\* C15: however the calls on the instance interleave, two finished calls of
\* the same operation with the same arguments and the same upstream response
\* have the same outcome, whatever the other calls did in between; the
\* request of a call depends on its arguments alone; and the client
\* configuration stays what the constructor made it.
C15_SameInputs(c, d) ==
  /\ calls[c].op = calls[d].op
  /\ calls[c].args = calls[d].args
  /\ calls[c].reply = calls[d].reply

C15_CallsIndependent ==
  /\ \A c, d \in CallIds :
       /\ (calls[c].pc = "done" /\ calls[d].pc = "done" /\ C15_SameInputs(c, d))
            => calls[c].result = calls[d].result
       /\ (calls[c].pc # "idle" /\ calls[d].pc # "idle"
             /\ calls[c].op = calls[d].op /\ calls[c].args = calls[d].args)
            => calls[c].request = calls[d].request
  /\ \A c \in CallIds :
       (calls[c].pc = "done" /\ calls[c].op = "generate") =>
         (calls[c].result.kind = "throw" <=> calls[c].reply \in Failures \cup {NotJson})
  /\ client.baseURL = "https://api.deepseek.com"
  /\ client.Authorization = <<"Bearer", "DEEPSEEK_API_KEY">>
  /\ client.timeout = 30000

\* two calls overlapped: the second started before the first settled, and
\* they ended differently
C15_Witness ==
  \E c, d \in CallIds :
    /\ c # d
    /\ calls[c].pc = "done" /\ calls[d].pc = "done"
    /\ calls[c].op = "generate" /\ calls[d].op = "generate"
    /\ calls[c].args = calls[d].args
    /\ calls[c].result.kind = "return"
    /\ calls[d].result.kind = "throw"

\* --------------------------------------------------------------- C16
\* C16 (as stated): when generation failed, the body a route answers with
\* is the one it answers with for every other kind of failure, and carries
\* no `details` and no text of the error that was thrown.
C16_CatchOf(route, message) ==
  IF route = "route" THEN RouteCatch(message)
  ELSE IF route = "generate" THEN GenerateCatch(message)
  ELSE PublicCatch(message)

C16_GenericFailureBody ==
  (pc = "responded" /\ outcome.kind = "throw") =>
    /\ http.details = <<>>
    /\ \A m \in {MsgAuth, MsgRate, MsgGenerate} :
         /\ http.error = C16_CatchOf(caller, m).error
         /\ http.message = C16_CatchOf(caller, m).message

\* --------------------------------------------------------------- C17
\* C17 (as stated): every topic a route passes to the service has 1 to 200
\* characters; a request without a title, with an empty one or with one of
\* more than 200 characters is answered 400 and nothing is posted upstream.
C17_TopicLengthBounded ==
  caller \in {"route", "generate", "public"} =>
    /\ requests > 0 => (Len(args.title) >= 1 /\ Len(args.title) <= 200)
    /\ (received.title.k = "undefined" \/ received.title.chars = <<>>
          \/ Len(received.title.chars) > 200)
         => (pc = "rejected" /\ http.status = 400 /\ requests = 0)

\* --------------------------------------------------------------- C18
\* C18: POST /api/suggestion calls the service with the title of the
\* validated request as topic, with its personality, or green when it has
\* none, and with its title_context as context when that is a non-empty
\* string, otherwise with its description.
C18_ArgumentsFromBody ==
  (caller = "route" /\ requests > 0) =>
    /\ args.title = req.title.chars
    /\ args.personality =
         (IF req.personality.k = "undefined" THEN Str("green")
          ELSE req.personality)
    /\ args.titleContext =
         (IF req.title_context.k = "str" /\ Len(req.title_context.chars) > 0
          THEN req.title_context ELSE req.description)

C18_Witness ==
  /\ caller = "route"
  /\ pc = "awaiting"
  /\ received.title_context = Text(<<" ">>)
  /\ received.description = Text(<<"d">>)
  /\ received.personality = Undefined
  /\ args.titleContext = Text(<<"d">>)
  /\ args.personality = Str("green")

\* --------------------------------------------------------------- C19
\* C19 (as stated): after a successful generation POST /api/suggestion
\* answers 201 and has stored one row per normalized suggestion, in order,
\* each with the id of the topic of this request, the id of the user and
\* the text and type normalization returned.
C19_OneRowPerSuggestion ==
  (caller = "route" /\ pc = "responded" /\ outcome.kind = "return") =>
    LET n == Len(outcome.suggestions)
        stored == SubSeq(rows, Len(rows) - n + 1, Len(rows))
    IN /\ http.status = 201
       /\ http.stored = n
       /\ Len(rows) >= n
       /\ \A i \in 1..n :
            /\ stored[i].topic_id = topics[Len(topics)].id
            /\ stored[i].user_id = topics[Len(topics)].user_id
            /\ stored[i].suggestion_text = outcome.suggestions[i].text
            /\ stored[i].suggestion_type = outcome.suggestions[i].type

\* --------------------------------------------------------------- C20
\* C20 (as stated): when the AI replied to a message sent to an active
\* session of the caller, the answer is 201 and the table ends with the user
\* message followed by an assistant message whose content is the reply text,
\* and the answer carries both.
C20_ReplyStored ==
  (chat.pc = "responded" /\ chat.reply.kind = "ok") =>
    /\ chat.answer.status = 201
    /\ Len(messages) >= 2
    /\ LET user == messages[Len(messages) - 1]
           assistant == messages[Len(messages)]
       IN /\ user.message_type = "user"
          /\ user.content = chat.content
          /\ assistant.message_type = "assistant"
          /\ assistant.session_id = chat.sessionId
          /\ assistant.content = chat.reply.content
          /\ chat.answer.user_message = user
          /\ chat.answer.ai_message = assistant

\* --------------------------------------------------------------- C21
\* C21: a request to /public/generate whose history is there and is not an
\* array, or is an array with an item that is null, is not an object, or has
\* no non-empty suggestion_text or no non-empty suggestion_type, is answered
\* 400 and nothing is posted upstream.
C21_GoodItem(item) ==
  /\ DOMAIN item = {"suggestion_text", "suggestion_type"}
  /\ Len(item.suggestion_text) > 0
  /\ Len(item.suggestion_type) > 0

C21_BadHistory(h) ==
  \/ h.k \notin {"undefined", "array"}
  \/ h.k = "array" /\ \E i \in 1..Len(h.items) : ~C21_GoodItem(h.items[i])

C21_BadHistoryRejected ==
  (caller = "public" /\ C21_BadHistory(received.history)) =>
    /\ pc = "rejected"
    /\ http.status = 400
    /\ requests = 0
    /\ request = NoRequest

C21_Witness ==
  /\ caller = "public"
  /\ pc = "rejected"
  /\ TitleValid(received.title)
  /\ received.personality = Undefined
  /\ received.history.k = "array"
  /\ Len(received.history.items) = 2
  /\ C21_GoodItem(received.history.items[1])

\* --------------------------------------------------------------- C22
\* C22 (as stated): when the probe succeeded, the body of the answer of
\* GET /health has a top-level field `success` that is true, and the health
\* check of the personality test run returns true.
C22_HealthBodySaysSuccess ==
  (health.pc = "responded" /\ calls[health.call].reply.kind = "ok") =>
    /\ "success" \in DOMAIN health.answer.body
    /\ TestCheckHealth(health.answer)

C23_OneRecordPerElement ==
  (Completed /\ (IsArray \/ HasSuggestionsArray)) =>
    /\ outcome.kind = "return"
    /\ Len(outcome.suggestions) = Len(ListOfReply)

\* --------------------------------------------------------------- C26
\* C26: POST /api/suggestion inserts one topic before it calls the service;
\* when the service failed, the handler answers with an error status, stores
\* no suggestion and leaves the topic stored, so that the topic of the
\* request is there without any suggestion.
C26_Step ==
  /\ (pc = "idle" /\ pc' = "awaiting" /\ caller' = "route") =>
       /\ Len(topics') = Len(topics) + 1
       /\ SubSeq(topics', 1, Len(topics)) = topics
       /\ topics'[Len(topics')].title = received'.title.chars
  /\ (pc = "done" /\ caller = "route" /\ outcome.kind = "throw"
        /\ pc' = "responded") =>
       /\ http'.status >= 400
       /\ http'.stored = 0
       /\ rows' = rows
       /\ topics' = topics
       /\ Len(topics) >= 1
       /\ \A i \in 1..Len(rows) : rows[i].topic_id # topics[Len(topics)].id

C26_FailureKeepsTopic == [][C26_Step]_vars

\* two requests failed one after the other: two topics and no suggestion
C26_Witness ==
  /\ caller = "route"
  /\ pc = "responded"
  /\ outcome.kind = "throw"
  /\ http.status = 503
  /\ Len(topics) = 2
  /\ rows = <<>>

\* C24: a chat message is stored only in a session whose status is 'active'
\* at the moment the message is stored, also when the session is ended or
\* archived by another request while a send is in progress.
C24_Step ==
  Len(messages') > Len(messages) =>
    LET session == ChatSessionFindById(messages'[Len(messages')].session_id)
    IN session # Null /\ session.status = "active"
C24_StoredOnlyWhenActive == [][C24_Step]_vars

\* C28: the context a chat send passes to the AI is the at most 20 most
\* recently stored messages of the session, oldest first, each with the role
\* of its message type, and its last entry is the user message this same
\* request stored.
C28_Step ==
  (chat.pc = "saved" /\ chat'.pc = "awaiting") =>
    LET all == SelectSession(messages, chat.sessionId)
        n == Len(all)
        k == IF n <= 20 THEN n ELSE 20
        context == chat'.context
    IN /\ Len(context) = k
       /\ \A i \in 1..k :
            /\ context[i].content = all[n - k + i].content
            /\ context[i].role =
                 (IF all[n - k + i].message_type = "user" THEN "user"
                  ELSE "assistant")
       /\ k > 0
       /\ all[n].id = chat.userMessage.id
C28_ContextEndsWithOwnMessage == [][C28_Step]_vars

\* --------------------------------------------------------------- C25
\* the record a request on one stored record addresses, as stored before
\* the request, and the tables the requests may write
RecordRequests ==
  {"GetSession", "GetMessages", "UpdateSession", "EndSession",
   "ArchiveSession", "GetTopic", "UpdateTopic", "PostFeedback"}
Addressed(o) ==
  IF o.name \in {"GetSession", "GetMessages", "UpdateSession", "EndSession",
                 "ArchiveSession"}
  THEN ChatSessionFindById(o.id)
  ELSE IF o.name \in {"GetTopic", "UpdateTopic"}
  THEN AnxietyTopicFindById(o.id)
  ELSE AnxietySuggestionFindById(o.id)
Stored == <<sessions, topics, rows, feedback, messages, users>>
\* the body of the request passes the validation chain of its route
PassesValidation(o) ==
  /\ o.name = "UpdateSession" => SessionBodyValid(o.body)
  /\ o.name = "UpdateTopic" => TopicBodyValid(o.body)
  /\ o.name = "PostFeedback" => FeedbackBodyValid(o.body)

\* C25 (as stated): every chat-session, topic and feedback request addressed
\* to a record of another user is answered 403, one addressed to an id that
\* does not exist is answered 404, and neither changes stored state.
C25_AsStatedStep ==
  /\ (operation' # operation /\ operation'.name \in RecordRequests) =>
       LET o == operation'
           record == Addressed(o)
       IN /\ record = Null => o.status = 404 /\ UNCHANGED Stored
          /\ (record # Null /\ record.user_id # o.userId) =>
               o.status = 403 /\ UNCHANGED Stored
  /\ (chat.pc = "idle" /\ chat'.pc # "idle") =>
       LET session == ChatSessionFindById(chat'.sessionId)
       IN /\ session = Null =>
               chat'.answer.status = 404 /\ UNCHANGED Stored
          /\ (session # Null /\ session.user_id # chat'.userId) =>
               chat'.answer.status = 403 /\ UNCHANGED Stored
C25_RefusedWith403Or404 == [][C25_AsStatedStep]_vars

\* C25 (amended): a request addressed to a record of another user or to an
\* id that does not exist changes no stored state; it is answered 403,
\* respectively 404, when its body passes the validation chain of the route,
\* which runs first and answers 400 otherwise. A request answered 200 was
\* addressed to a record of the requesting user.
C25_AmendedStep ==
  /\ (operation' # operation /\ operation'.name \in RecordRequests) =>
       LET o == operation'
           record == Addressed(o)
       IN /\ record = Null =>
               /\ UNCHANGED Stored
               /\ o.status = IF PassesValidation(o) THEN 404 ELSE 400
          /\ (record # Null /\ record.user_id # o.userId) =>
               /\ UNCHANGED Stored
               /\ o.status = IF PassesValidation(o) THEN 403 ELSE 400
          /\ o.status = 200 => record # Null /\ record.user_id = o.userId
  /\ (chat.pc = "idle" /\ chat'.pc # "idle") =>
       LET session == ChatSessionFindById(chat'.sessionId)
       IN /\ session = Null =>
               chat'.answer.status = 404 /\ UNCHANGED Stored
          /\ (session # Null /\ session.user_id # chat'.userId) =>
               chat'.answer.status = 403 /\ UNCHANGED Stored
C25_OnlyOwnRecords == [][C25_AmendedStep]_vars

\* a second request, an update with a valid body of the session of the
\* other user, was answered 403 after the first one changed the user's own
C25_Witness ==
  /\ operation.n = 2
  /\ operation.name = "UpdateSession"
  /\ operation.id = 2 /\ operation.userId = 1
  /\ SessionBodyValid(operation.body)
  /\ operation.status = 403
  /\ sessions[1] # ChatSessions[1]
  /\ sessions[2] = ChatSessions[2]

\* --------------------------------------------------------------- C27
\* C27: a handler behind authenticateToken runs only when the request
\* carries a token that verifies and whose user id is that of an existing,
\* active user; without a token, with an invalid or expired one, or with the
\* token of an unknown or deactivated user, the answer is 401 and the
\* handler is not invoked.
C27_Step ==
  /\ (auth' # auth /\ ~ auth'.handled) =>
       LET token == HeaderToken(auth'.header)
           verified == token.kind = "valid"
           active == \E i \in 1..Len(users) :
                       users[i].id = token.id /\ users[i].is_active
       IN IF verified /\ active
          THEN auth'.next /\ auth'.status = 0 /\ auth'.user.id = token.id
          ELSE ~ auth'.next /\ auth'.status = 401
  /\ (auth'.handled /\ ~ auth.handled) => auth.next
UpdateRequests == {"UpdateSession", "UpdateTopic", "UpdateProfile"}
AllowedOf(name) ==
  IF name = "UpdateSession" THEN SessionFields
  ELSE IF name = "UpdateTopic" THEN TopicFields
  ELSE UserFields
NoWhitelisted(o) ==
  \A f \in AllowedOf(o.name) : Property(o.body, f).k = "undefined"

\* C29: an update request changes only whitelisted fields named by its body,
\* plus updated_at, of the one record it addresses: id, owner and every
\* other field and record stay as they were; a body without a whitelisted
\* field writes nothing and the record is returned as it was.
C29_Step ==
  (operation' # operation /\ operation'.name \in UpdateRequests) =>
    LET o == operation'
        before == IF o.name = "UpdateSession" THEN sessions
                  ELSE IF o.name = "UpdateTopic" THEN topics ELSE users
        after == IF o.name = "UpdateSession" THEN sessions'
                 ELSE IF o.name = "UpdateTopic" THEN topics' ELSE users'
    IN /\ DOMAIN after = DOMAIN before
       /\ \A i \in DOMAIN before :
            /\ DOMAIN after[i] = DOMAIN before[i]
            /\ \A f \in DOMAIN before[i] :
                 after[i][f] # before[i][f] =>
                   /\ before[i].id = o.id
                   /\ f \in AllowedOf(o.name) \cup {"updated_at"}
                   /\ f \in AllowedOf(o.name) =>
                        /\ Property(o.body, f).k = "value"
                        /\ after[i][f] = o.body[f].v
       /\ o.name # "UpdateSession" => UNCHANGED sessions
       /\ o.name # "UpdateTopic" => UNCHANGED topics
       /\ o.name # "UpdateProfile" => UNCHANGED users
       /\ UNCHANGED <<rows, feedback, messages>>
       /\ NoWhitelisted(o) =>
            /\ UNCHANGED Stored
            /\ o.status = 200 =>
                 \E i \in DOMAIN before :
                   before[i].id = o.id /\ o.returned = before[i]
C29_OnlyWhitelistedFields == [][C29_Step]_vars

\* the owner's update with a title, a user_id and an updated_at in its body
\* changed the title and left the owner
C29_Witness ==
  /\ operation.name = "UpdateSession" /\ operation.status = 200
  /\ "user_id" \in DOMAIN operation.body
  /\ operation.returned.title = "new"
  /\ operation.returned.user_id = operation.userId
  /\ sessions[operation.id] = operation.returned
====
